---- MODULE Spec2Model ----
(***************************************************************************)
(* Cost and usage aggregation of claude-code-sessions.                     *)
(*                                                                         *)
(* The program reads append-only JSONL event logs (projects/<project>/     *)
(* <session>.jsonl and the two subagent layouts) and answers each request  *)
(* by running one SQL template over all records.  The model keeps the log  *)
(* as the sequence of records in read order, the pricing table loaded at   *)
(* start-up, and the last request together with the rows it returned.      *)
(* The frontend keeps its filters in the URL: location is the path and     *)
(* the search string of the browser, lastChange the last event that        *)
(* produced it and the filter values in force since.  api is the state of  *)
(* one useApi hook and drill the state of the DrillDown page, each with    *)
(* the requests it has in flight.                                          *)
(*                                                                         *)
(* Units.  Timestamps are minutes since Monday 2024-12-30T00:00Z, dates    *)
(* are days since that Monday.  Prices are in quarter dollars per million  *)
(* tokens, so tokens * price is a cost in units of 0.25e-6 USD and all     *)
(* arithmetic is exact; ROUND(x, 4) and ROUND(x, 2) yield integers in      *)
(* units of 1e-4 USD and 1e-2 USD.                                         *)
(***************************************************************************)
EXTENDS Integers, Sequences, FiniteSets, TLC

VARIABLES files, pricing, q, rows, location, lastChange, api, drill

vars == <<files, pricing, q, rows, location, lastChange, api, drill>>

(***************************************************************************)
(* SQL values                                                              *)
(***************************************************************************)

\* SQL NULL of a numeric column (token counts and timestamps are >= 0).
NULL == 0 - 1

\* A timestamp field that is present but is not an ISO-8601 string.
Malformed == 0 - 2

\* SQL NULL of a VARCHAR column; strings are tuples of characters.
NULLSTR == <<"<NULL>">>

\* COALESCE(x, 0)
Coalesce0(x) == IF x = NULL THEN 0 ELSE x

RECURSIVE SumSeq(_)
SumSeq(s) == IF s = <<>> THEN 0 ELSE Head(s) + SumSeq(Tail(s))

\* SUM(x): NULL values are skipped; the sum of no non-NULL value is NULL.
SqlSum(s) ==
    LET nn == SelectSeq(s, LAMBDA x : x # NULL)
    IN  IF nn = <<>> THEN NULL ELSE SumSeq(nn)

\* a + b on nullable integers
SqlAdd(a, b) == IF a = NULL \/ b = NULL THEN NULL ELSE a + b

\* ROUND(x, 4) of a non-negative cost, in units of 1e-4 USD
Round4(c) == IF c = NULL THEN NULL ELSE (c + 200) \div 400

\* ROUND(x, 2) of a non-negative cost, in units of 1e-2 USD
Round2(c) == IF c = NULL THEN NULL ELSE (c + 20000) \div 40000

\* ROUND(100.0 * a / NULLIF(b, 0), 1), in tenths of a percent
PctRound1(a, b) ==
    IF b = NULL \/ b = 0 \/ a = NULL THEN NULL ELSE (2000 * a + b) \div (2 * b)

\* s LIKE '%pat%' (case-sensitive substring); NULL LIKE ... is not true
Like(s, pat) ==
    /\ s # NULLSTR
    /\ \E i \in 0..(Len(s) - Len(pat)) : SubSeq(s, i + 1, i + Len(pat)) = pat

\* s LIKE 'pat%'
LikePrefix(s, pat) ==
    /\ s # NULLSTR
    /\ Len(s) >= Len(pat)
    /\ SubSeq(s, 1, Len(pat)) = pat

(***************************************************************************)
(* Strings of the model                                                    *)
(***************************************************************************)
StrProjects == <<"p","r","o","j","e","c","t","s">>
StrSubagents == <<"s","u","b","a","g","e","n","t","s">>
StrAgentDash == <<"a","g","e","n","t","-">>
StrOpus == <<"o","p","u","s">>
StrSonnet == <<"s","o","n","n","e","t">>
StrHaiku == <<"h","a","i","k","u">>
StrUnknown == <<"u","n","k","n","o","w","n">>

ModelSonnet == <<"c","l","a","u","d","e","-","s","o","n","n","e","t","-","4","-","5">>
ModelOpus == <<"c","l","a","u","d","e","-","o","p","u","s","-","4">>
ModelHaiku == <<"c","l","a","u","d","e","-","h","a","i","k","u","-","3">>
ModelOther == <<"g","p","t","-","4","o">>
ModelSonnetOpus == <<"s","o","n","n","e","t","-","o","p","u","s">>
ModelUpperOpus == <<"C","l","a","u","d","e","-","O","P","U","S">>

P1 == <<"p","1">>
P2 == <<"p","2">>
PA == <<"A">>
PB == <<"B">>
PC == <<"C">>
PD == <<"D">>
S1 == <<"s","1">>
S2 == <<"s","2">>
S3 == <<"s","3">>
Agent7 == <<"a","g","e","n","t","-","7">>
AgentX == <<"a","g","e","n","t","-","x">>

\* projects/<project>/<session>.jsonl ; the last segment is the file name
\* without its .jsonl extension (the glob only reads *.jsonl files)
MainPath(p, s) == <<StrProjects, p, s>>
LegacyAgentPath(p, a) == <<StrProjects, p, a>>
SubagentPath(p, s, a) == <<StrProjects, p, s, StrSubagents, a>>

(***************************************************************************)
(* Field extraction shared by the query templates                          *)
(***************************************************************************)

\* regexp_extract(filename, 'projects/([^/]+)/', 1): the directory segment
\* after the first segment that ends in "projects"; '' when there is none
ProjectId(path) ==
    LET hits == {i \in 1..(Len(path) - 2) :
                    /\ Len(path[i]) >= Len(StrProjects)
                    /\ SubSeq(path[i], Len(path[i]) - Len(StrProjects) + 1,
                              Len(path[i])) = StrProjects}
    IN  IF hits = {} THEN <<>>
        ELSE path[(CHOOSE i \in hits : \A j \in hits : i <= j) + 1]

\* regexp_extract(filename, '/([^/]+)\.jsonl$', 1)
FileStem(path) == IF Len(path) >= 2 THEN path[Len(path)] ELSE <<>>

\* The model_family CASE with the sonnet test moved in front of the opus test
ModelFamilySonnetFirst(model) ==
    IF Like(model, StrSonnet) THEN StrSonnet
    ELSE IF Like(model, StrOpus) THEN StrOpus
    ELSE IF Like(model, StrHaiku) THEN StrHaiku
    ELSE StrUnknown

\* CASE WHEN model LIKE '%opus%' ... ELSE 'unknown' END
ModelFamily(model) ==
    IF Like(model, StrOpus) THEN StrOpus
    ELSE IF Like(model, StrSonnet) THEN StrSonnet
    ELSE IF Like(model, StrHaiku) THEN StrHaiku
    ELSE StrUnknown

\* TRY_CAST(timestamp AS TIMESTAMP): NULL when absent or not parseable
TryCastTimestamp(ts) == IF ts >= 0 THEN ts ELSE NULL

\* DATE_TRUNC('day', t)::DATE
DateTruncDay(t) == IF t = NULL THEN NULL ELSE t \div 1440

\* DATE_TRUNC('week', t)::DATE: the Monday of the ISO week of t
DateTruncWeek(t) == IF t = NULL THEN NULL ELSE 7 * ((t \div 1440) \div 7)

\* End of daylight saving in Melbourne: 2025-04-06T03:00+11 = 2025-04-05T16:00Z
DstEnd == 96 * 1440 + 16 * 60

\* The local time taken to be the UTC time
AtUtc(t) == t

\* t AT TIME ZONE 'Australia/Melbourne': the local wall-clock time,
\* UTC+11 during daylight saving and UTC+10 after it
AtMelbourne(t) ==
    IF t = NULL THEN NULL
    ELSE IF t < DstEnd THEN t + 11 * 60 ELSE t + 10 * 60

\* The time zone of the database session, in which DATE_TRUNC and ::DATE read
\* a TIMESTAMPTZ that has no AT TIME ZONE: the session runs in UTC
AtSessionTimeZone(t) == t

\* EXTRACT(HOUR FROM t)
ExtractHour(t) == IF t = NULL THEN NULL ELSE (t % 1440) \div 60

\* A flag that is true unless the field says false: an absent field counts
\* as a subagent
IsSidechainUnlessFalse(v) == v # "false"

\* COALESCE(TRY_CAST(isSidechain AS BOOLEAN), false)
IsSidechain(v) == v = "true"

(***************************************************************************)
(* Inputs: pricing tables and log records                                  *)
(***************************************************************************)

PriceRow(id, fam, bi, c5, c1, cr, out) ==
    [model_id |-> id, model_family |-> fam, base_input_price |-> bi,
     cache_5m_write_price |-> c5, cache_1h_write_price |-> c1,
     cache_read_price |-> cr, output_price |-> out]

\* One row per family: sonnet 3.00/3.75/6.00/0.25/15.00 USD per million ...
PricingByFamily ==
    << PriceRow(ModelSonnet, StrSonnet, 12, 15, 24, 1, 60),
       PriceRow(ModelOpus, StrOpus, 60, 75, 120, 6, 300),
       PriceRow(ModelHaiku, StrHaiku, 4, 5, 8, 1, 20) >>

\* One row per model id, two of them of the sonnet family
PricingByModel ==
    << PriceRow(ModelSonnet, StrSonnet, 12, 15, 24, 1, 60),
       PriceRow(<<"s","o","n","n","e","t","-","3">>, StrSonnet, 12, 15, 24, 1, 60),
       PriceRow(ModelHaiku, StrHaiku, 4, 5, 8, 1, 20) >>

PricingTables == {PricingByFamily, PricingByModel}

\* What a LEFT JOIN yields for a row without a match in pricing
NoPrice == PriceRow(NULLSTR, NULLSTR, NULL, NULL, NULL, NULL, NULL)

\* One line of a log file.  usage = FALSE: there is no message.usage block
\* and every token field reads as NULL.
Record(path, sid, aid, side, type, model, usage, inp, out, cc, cr, e5, e1, ts) ==
    [path |-> path, sessionId |-> sid, agentId |-> aid, isSidechain |-> side,
     type |-> type,
     model |-> model, usage |-> usage,
     input_tokens |-> inp, output_tokens |-> out,
     cache_creation_input_tokens |-> cc, cache_read_input_tokens |-> cr,
     ephemeral_5m_input_tokens |-> e5, ephemeral_1h_input_tokens |-> e1,
     timestamp |-> ts]

\* Minutes since the epoch of day d, hour h, minute m (UTC)
At(d, h, m) == d * 1440 + h * 60 + m

\* The evaluation instant of CURRENT_TIMESTAMP: 2025-01-13T00:00Z
Now == At(14, 0, 0)

(***************************************************************************)
(* Filter placeholders                                                     *)
(***************************************************************************)

\* __DAYS_FILTER__: empty for days = 0, otherwise the parsed timestamp must
\* lie in the last `days` days (a NULL timestamp fails the comparison)
DaysFilter(ts, days) ==
    \/ days <= 0
    \/ /\ TryCastTimestamp(ts) # NULL
       /\ TryCastTimestamp(ts) >= Now - days * 1440

\* __PROJECT_FILTER__: empty when no project is given, else exact match
ProjectFilter(path, project) ==
    \/ project = NULLSTR
    \/ ProjectId(path) = project

(***************************************************************************)
(* Joins and aggregates                                                    *)
(***************************************************************************)

RECURSIVE Flatten(_)
Flatten(ss) == IF ss = <<>> THEN <<>> ELSE Head(ss) \o Flatten(Tail(ss))

\* pd INNER JOIN pricing p ON On(pd, p)
InnerJoin(pds, pr, On(_, _)) ==
    Flatten([i \in 1..Len(pds) |->
        LET m == SelectSeq(pr, LAMBDA p : On(pds[i], p))
        IN  [j \in 1..Len(m) |-> [e |-> pds[i], p |-> m[j]]]])

\* pd LEFT JOIN pricing p ON On(pd, p)
LeftJoin(pds, pr, On(_, _)) ==
    Flatten([i \in 1..Len(pds) |->
        LET m == SelectSeq(pr, LAMBDA p : On(pds[i], p))
        IN  IF m = <<>> THEN << [e |-> pds[i], p |-> NoPrice] >>
            ELSE [j \in 1..Len(m) |-> [e |-> pds[i], p |-> m[j]]]])

\* ON pd.model_family = p.model_family
OnFamily(e, p) == e.model_family = p.model_family

\* ON pd.model_id = p.model_id
OnModelId(e, p) == e.model_id # NULLSTR /\ e.model_id = p.model_id

\* FROM parsed_data pd JOIN pricing p ON pd.model_family = p.model_family
InnerJoinPricingOnFamily(pds, pr) == InnerJoin(pds, pr, OnFamily)

\* FROM parsed_data pd LEFT JOIN pricing p ON pd.model_family = p.model_family
JoinPricingOnFamily(pds, pr) == LeftJoin(pds, pr, OnFamily)

\* FROM parsed_data pd LEFT JOIN pricing p ON pd.model_id = p.model_id
JoinPricingOnModelId(pds, pr) == LeftJoin(pds, pr, OnModelId)

\* a * b on nullable integers
SqlMul(a, b) == IF a = NULL \/ b = NULL THEN NULL ELSE a * b

\* (tokens / 1000000.0) * price, without either COALESCE
CostTermNoCoalesce(tok, price) == SqlMul(tok, price)

\* (COALESCE(tokens, 0) / 1000000.0) * COALESCE(price, 0)
CostTerm(tok, price) == Coalesce0(tok) * Coalesce0(price)

CostBaseInput(j) == CostTerm(j.e.input_tokens, j.p.base_input_price)
CostCache5m(j) == CostTerm(j.e.ephemeral_5m_input_tokens, j.p.cache_5m_write_price)
CostCache1h(j) == CostTerm(j.e.ephemeral_1h_input_tokens, j.p.cache_1h_write_price)
CostCacheRead(j) == CostTerm(j.e.cache_read_input_tokens, j.p.cache_read_price)
CostOutput(j) == CostTerm(j.e.output_tokens, j.p.output_price)

\* The per-row cost expression without the output term
CostAllButOutput(j) ==
    SqlAdd(SqlAdd(SqlAdd(CostBaseInput(j), CostCache5m(j)),
                  CostCache1h(j)), CostCacheRead(j))

\* The per-row cost expression without the base input term
CostAllButBaseInput(j) ==
    SqlAdd(SqlAdd(SqlAdd(CostCache5m(j), CostCache1h(j)), CostCacheRead(j)),
           CostOutput(j))

\* The five-term per-row cost expression inside SUM(...)
CostAll(j) ==
    SqlAdd(SqlAdd(SqlAdd(SqlAdd(CostBaseInput(j), CostCache5m(j)),
                         CostCache1h(j)), CostCacheRead(j)), CostOutput(j))

\* The values of expression F over the rows of a group
Col(g, F(_)) == [i \in 1..Len(g) |-> F(g[i])]

\* COUNT(DISTINCT session_id): NULL is not counted
CountDistinct(g, F(_)) == Cardinality({F(g[i]) : i \in 1..Len(g)} \ {NULLSTR})

\* The groups of GROUP BY Key: one sequence of rows per distinct key
GroupBy(J, Key(_)) ==
    {SelectSeq(J, LAMBDA j : Key(j) = k) : k \in {Key(J[i]) : i \in 1..Len(J)}}

(***************************************************************************)
(* by_week: weekly aggregation per project and model                       *)
(***************************************************************************)

ByWeekParsed(e) ==
    [project_id |-> ProjectId(e.path),
     session_id |-> FileStem(e.path),
     model_id |-> e.model,
     model_family |-> ModelFamily(e.model),
     input_tokens |-> e.input_tokens,
     cache_creation_input_tokens |-> e.cache_creation_input_tokens,
     cache_read_input_tokens |-> e.cache_read_input_tokens,
     ephemeral_5m_input_tokens |-> e.ephemeral_5m_input_tokens,
     ephemeral_1h_input_tokens |-> e.ephemeral_1h_input_tokens,
     output_tokens |-> e.output_tokens,
     timestamp |-> TryCastTimestamp(e.timestamp),
     week |-> DateTruncWeek(TryCastTimestamp(e.timestamp))]

\* The filter without its first condition: records without a usage block pass
UsageWhereAnyEvent(e, days, project) ==
    /\ DaysFilter(e.timestamp, days)
    /\ ProjectFilter(e.path, project)

\* WHERE message.usage IS NOT NULL __DAYS_FILTER__ __PROJECT_FILTER__
UsageWhere(e, days, project) ==
    /\ e.usage
    /\ DaysFilter(e.timestamp, days)
    /\ ProjectFilter(e.path, project)

ByWeekKey(j) == <<j.e.project_id, j.e.model_id, j.e.week, j.e.model_family>>

ByWeekRow(g) ==
    [project_id |-> g[1].e.project_id,
     model_id |-> g[1].e.model_id,
     time_bucket |-> g[1].e.week,
     total_cost_raw |-> SqlSum(Col(g, CostAll)),
     total_cost_usd |-> Round4(SqlSum(Col(g, CostAll))),
     session_count |-> CountDistinct(g, LAMBDA j : j.e.session_id),
     event_count |-> Len(g),
     total_input_tokens |-> Coalesce0(SqlSum(Col(g, LAMBDA j : j.e.input_tokens))),
     total_cache_creation_input_tokens |->
         Coalesce0(SqlSum(Col(g, LAMBDA j : j.e.cache_creation_input_tokens))),
     total_cache_read_input_tokens |->
         Coalesce0(SqlSum(Col(g, LAMBDA j : j.e.cache_read_input_tokens))),
     total_ephemeral_5m_input_tokens |->
         Coalesce0(SqlSum(Col(g, LAMBDA j : j.e.ephemeral_5m_input_tokens))),
     total_ephemeral_1h_input_tokens |->
         Coalesce0(SqlSum(Col(g, LAMBDA j : j.e.ephemeral_1h_input_tokens))),
     total_output_tokens |-> Coalesce0(SqlSum(Col(g, LAMBDA j : j.e.output_tokens))),
     total_all_tokens |->
         Coalesce0(SqlSum(Col(g, LAMBDA j : j.e.input_tokens)))
         + Coalesce0(SqlSum(Col(g, LAMBDA j : j.e.cache_creation_input_tokens)))
         + Coalesce0(SqlSum(Col(g, LAMBDA j : j.e.cache_read_input_tokens)))
         + Coalesce0(SqlSum(Col(g, LAMBDA j : j.e.output_tokens))),
     cost_base_input |-> Round4(SqlSum(Col(g, CostBaseInput))),
     cost_cache_5m_writes |-> Round4(SqlSum(Col(g, CostCache5m))),
     cost_cache_1h_writes |-> Round4(SqlSum(Col(g, CostCache1h))),
     cost_cache_reads |-> Round4(SqlSum(Col(g, CostCacheRead))),
     cost_output |-> Round4(SqlSum(Col(g, CostOutput)))]

ByWeek(evs, pr, days, project) ==
    LET src == SelectSeq(evs, LAMBDA e : UsageWhere(e, days, project))
        pd == [i \in 1..Len(src) |-> ByWeekParsed(src[i])]
        J == JoinPricingOnFamily(pd, pr)
    IN  {ByWeekRow(g) : g \in GroupBy(J, ByWeekKey)}

(***************************************************************************)
(* by_hour: hourly aggregation in local time                               *)
(***************************************************************************)

ByHourParsed(e) ==
    [project_id |-> ProjectId(e.path),
     session_id |-> FileStem(e.path),
     model_id |-> e.model,
     model_family |-> ModelFamily(e.model),
     input_tokens |-> e.input_tokens,
     cache_creation_input_tokens |-> e.cache_creation_input_tokens,
     cache_read_input_tokens |-> e.cache_read_input_tokens,
     ephemeral_5m_input_tokens |-> e.ephemeral_5m_input_tokens,
     ephemeral_1h_input_tokens |-> e.ephemeral_1h_input_tokens,
     output_tokens |-> e.output_tokens,
     timestamp_local |-> AtMelbourne(TryCastTimestamp(e.timestamp)),
     date |-> DateTruncDay(AtMelbourne(TryCastTimestamp(e.timestamp))),
     hour |-> ExtractHour(AtMelbourne(TryCastTimestamp(e.timestamp)))]

ByHourKey(j) == <<j.e.project_id, j.e.date, j.e.hour>>

ByHourRow(g) ==
    [project_id |-> g[1].e.project_id,
     time_bucket |-> g[1].e.date,
     hour_of_day |-> g[1].e.hour,
     total_cost_raw |-> SqlSum(Col(g, CostAll)),
     total_cost_usd |-> Round4(SqlSum(Col(g, CostAll))),
     input_tokens |-> Coalesce0(SqlSum(Col(g, LAMBDA j : j.e.input_tokens))),
     output_tokens |-> Coalesce0(SqlSum(Col(g, LAMBDA j : j.e.output_tokens))),
     total_tokens |->
         Coalesce0(SqlSum(Col(g, LAMBDA j : j.e.input_tokens)))
         + Coalesce0(SqlSum(Col(g, LAMBDA j : j.e.output_tokens))),
     session_count |-> CountDistinct(g, LAMBDA j : j.e.session_id),
     event_count |-> Len(g)]

ByHour(evs, pr, days, project) ==
    LET src == SelectSeq(evs, LAMBDA e : UsageWhere(e, days, project))
        pd == [i \in 1..Len(src) |-> ByHourParsed(src[i])]
        J == JoinPricingOnFamily(pd, pr)
    IN  {ByHourRow(g) : g \in GroupBy(J, ByHourKey)}

(***************************************************************************)
(* summary: the GRAND TOTAL row                                            *)
(***************************************************************************)

SummaryParsed(e) ==
    [project_id |-> ProjectId(e.path),
     model_id |-> e.model,
     model_family |-> ModelFamily(e.model),
     is_sidechain |-> IsSidechain(e.isSidechain),
     input_tokens |-> e.input_tokens,
     cache_creation_input_tokens |-> e.cache_creation_input_tokens,
     cache_read_input_tokens |-> e.cache_read_input_tokens,
     ephemeral_5m_input_tokens |-> e.ephemeral_5m_input_tokens,
     ephemeral_1h_input_tokens |-> e.ephemeral_1h_input_tokens,
     output_tokens |-> e.output_tokens]

\* SUM(CASE WHEN cond THEN x END)
SumWhen(g, Cond(_), F(_)) ==
    SqlSum(Col(g, LAMBDA j : IF Cond(j) THEN F(j) ELSE NULL))

\* COUNT(CASE WHEN cond THEN 1 END)
CountWhen(g, Cond(_)) == Cardinality({i \in 1..Len(g) : Cond(g[i])})

\* The sum of the SUMs that make up grand_total_cost_usd
SummaryGrandTotal(g) ==
    SqlAdd(SqlAdd(SqlAdd(SqlSum(Col(g, CostBaseInput)),
                         SqlSum(Col(g, CostCache5m))),
                  SqlSum(Col(g, CostCacheRead))),
           SqlSum(Col(g, CostOutput)))

\* An aggregate without GROUP BY: exactly one row, also over no rows
SummaryRow(g) ==
    [summary_level |-> "GRAND TOTAL",
     total_projects |-> CountDistinct(g, LAMBDA j : j.e.project_id),
     total_events |-> Len(g),
     total_input_tokens |-> Coalesce0(SqlSum(Col(g, LAMBDA j : j.e.input_tokens))),
     total_cache_5m_tokens |->
         Coalesce0(SqlSum(Col(g, LAMBDA j : j.e.ephemeral_5m_input_tokens))),
     total_cache_read_tokens |->
         Coalesce0(SqlSum(Col(g, LAMBDA j : j.e.cache_read_input_tokens))),
     total_output_tokens |-> Coalesce0(SqlSum(Col(g, LAMBDA j : j.e.output_tokens))),
     main_agent_events |-> CountWhen(g, LAMBDA j : ~j.e.is_sidechain),
     subagent_events |-> CountWhen(g, LAMBDA j : j.e.is_sidechain),
     main_agent_input_tokens |->
         Coalesce0(SumWhen(g, LAMBDA j : ~j.e.is_sidechain, LAMBDA j : j.e.input_tokens)),
     main_agent_output_tokens |->
         Coalesce0(SumWhen(g, LAMBDA j : ~j.e.is_sidechain, LAMBDA j : j.e.output_tokens)),
     subagent_input_tokens |->
         Coalesce0(SumWhen(g, LAMBDA j : j.e.is_sidechain, LAMBDA j : j.e.input_tokens)),
     subagent_output_tokens |->
         Coalesce0(SumWhen(g, LAMBDA j : j.e.is_sidechain, LAMBDA j : j.e.output_tokens)),
     subagent_token_pct |->
         PctRound1(Coalesce0(SumWhen(g, LAMBDA j : j.e.is_sidechain,
                       LAMBDA j : SqlAdd(j.e.input_tokens, j.e.output_tokens))),
                   Coalesce0(SqlSum(Col(g,
                       LAMBDA j : SqlAdd(j.e.input_tokens, j.e.output_tokens))))),
     total_cost_base_input |-> Round2(SqlSum(Col(g, CostBaseInput))),
     total_cost_cache_writes |-> Round2(SqlSum(Col(g, CostCache5m))),
     total_cost_cache_reads |-> Round2(SqlSum(Col(g, CostCacheRead))),
     total_cost_output |-> Round2(SqlSum(Col(g, CostOutput))),
     grand_total_raw |-> SummaryGrandTotal(g),
     grand_total_cost_usd |-> Round2(SummaryGrandTotal(g))]

Summary(evs, pr, days, project) ==
    LET src == SelectSeq(evs, LAMBDA e : UsageWhere(e, days, project))
        pd == [i \in 1..Len(src) |-> SummaryParsed(src[i])]
        J == JoinPricingOnFamily(pd, pr)
    IN  {SummaryRow(J)}

(***************************************************************************)
(* sessions: usage per project, session and model                          *)
(***************************************************************************)

SessionsParsed(e) ==
    [project_id |-> ProjectId(e.path),
     session_id |-> FileStem(e.path),
     model_id |-> e.model,
     is_sidechain |-> IsSidechain(e.isSidechain),
     input_tokens |-> e.input_tokens,
     cache_creation_input_tokens |-> e.cache_creation_input_tokens,
     cache_read_input_tokens |-> e.cache_read_input_tokens,
     ephemeral_5m_input_tokens |-> e.ephemeral_5m_input_tokens,
     ephemeral_1h_input_tokens |-> e.ephemeral_1h_input_tokens,
     output_tokens |-> e.output_tokens,
     timestamp |-> TryCastTimestamp(e.timestamp)]

SessionsKey(j) ==
    <<j.e.project_id, j.e.session_id, j.e.model_id,
      j.p.base_input_price, j.p.cache_5m_write_price, j.p.cache_1h_write_price,
      j.p.cache_read_price, j.p.output_price>>

\* (COALESCE(SUM(tokens), 0) / 1000000.0) * COALESCE(price, 0)
SessionsCost(g, F(_), price) == Coalesce0(SqlSum(Col(g, F))) * Coalesce0(price)

\* The argument of ROUND in total_cost_usd
SessionsTotalCost(g) ==
    SessionsCost(g, LAMBDA j : j.e.input_tokens, g[1].p.base_input_price)
    + SessionsCost(g, LAMBDA j : j.e.ephemeral_5m_input_tokens, g[1].p.cache_5m_write_price)
    + SessionsCost(g, LAMBDA j : j.e.ephemeral_1h_input_tokens, g[1].p.cache_1h_write_price)
    + SessionsCost(g, LAMBDA j : j.e.cache_read_input_tokens, g[1].p.cache_read_price)
    + SessionsCost(g, LAMBDA j : j.e.output_tokens, g[1].p.output_price)

SessionsRow(g) ==
    [project_id |-> g[1].e.project_id,
     session_id |-> g[1].e.session_id,
     model_id |-> g[1].e.model_id,
     event_count |-> Len(g),
     total_input_tokens |-> Coalesce0(SqlSum(Col(g, LAMBDA j : j.e.input_tokens))),
     total_cache_creation_input_tokens |->
         Coalesce0(SqlSum(Col(g, LAMBDA j : j.e.cache_creation_input_tokens))),
     total_cache_read_input_tokens |->
         Coalesce0(SqlSum(Col(g, LAMBDA j : j.e.cache_read_input_tokens))),
     total_ephemeral_5m_input_tokens |->
         Coalesce0(SqlSum(Col(g, LAMBDA j : j.e.ephemeral_5m_input_tokens))),
     total_ephemeral_1h_input_tokens |->
         Coalesce0(SqlSum(Col(g, LAMBDA j : j.e.ephemeral_1h_input_tokens))),
     total_output_tokens |-> Coalesce0(SqlSum(Col(g, LAMBDA j : j.e.output_tokens))),
     total_all_tokens |->
         Coalesce0(SqlSum(Col(g, LAMBDA j : j.e.input_tokens)))
         + Coalesce0(SqlSum(Col(g, LAMBDA j : j.e.cache_creation_input_tokens)))
         + Coalesce0(SqlSum(Col(g, LAMBDA j : j.e.cache_read_input_tokens)))
         + Coalesce0(SqlSum(Col(g, LAMBDA j : j.e.output_tokens))),
     main_agent_events |-> CountWhen(g, LAMBDA j : ~j.e.is_sidechain),
     subagent_events |-> CountWhen(g, LAMBDA j : j.e.is_sidechain),
     main_agent_input_tokens |->
         Coalesce0(SumWhen(g, LAMBDA j : ~j.e.is_sidechain, LAMBDA j : j.e.input_tokens)),
     main_agent_output_tokens |->
         Coalesce0(SumWhen(g, LAMBDA j : ~j.e.is_sidechain, LAMBDA j : j.e.output_tokens)),
     subagent_input_tokens |->
         Coalesce0(SumWhen(g, LAMBDA j : j.e.is_sidechain, LAMBDA j : j.e.input_tokens)),
     subagent_output_tokens |->
         Coalesce0(SumWhen(g, LAMBDA j : j.e.is_sidechain, LAMBDA j : j.e.output_tokens)),
     subagent_token_pct |->
         PctRound1(Coalesce0(SumWhen(g, LAMBDA j : j.e.is_sidechain,
                       LAMBDA j : SqlAdd(j.e.input_tokens, j.e.output_tokens))),
                   Coalesce0(SqlSum(Col(g,
                       LAMBDA j : SqlAdd(j.e.input_tokens, j.e.output_tokens))))),
     cost_base_input |->
         Round4(SessionsCost(g, LAMBDA j : j.e.input_tokens, g[1].p.base_input_price)),
     cost_cache_5m_writes |->
         Round4(SessionsCost(g, LAMBDA j : j.e.ephemeral_5m_input_tokens,
                             g[1].p.cache_5m_write_price)),
     cost_cache_1h_writes |->
         Round4(SessionsCost(g, LAMBDA j : j.e.ephemeral_1h_input_tokens,
                             g[1].p.cache_1h_write_price)),
     cost_cache_reads |->
         Round4(SessionsCost(g, LAMBDA j : j.e.cache_read_input_tokens,
                             g[1].p.cache_read_price)),
     cost_output |->
         Round4(SessionsCost(g, LAMBDA j : j.e.output_tokens, g[1].p.output_price)),
     total_cost_raw |-> SessionsTotalCost(g),
     total_cost_usd |-> Round4(SessionsTotalCost(g))]

Sessions(evs, pr, days, project) ==
    LET src == SelectSeq(evs, LAMBDA e : UsageWhere(e, days, project))
        pd == [i \in 1..Len(src) |-> SessionsParsed(src[i])]
        J == JoinPricingOnModelId(pd, pr)
    IN  {SessionsRow(g) : g \in GroupBy(J, SessionsKey)}

(***************************************************************************)
(* top_projects_weekly: weekly rows of the three most expensive projects   *)
(***************************************************************************)

\* LIMIT 3
TopLimit == 3

TopParsed(e) ==
    [project_id |-> ProjectId(e.path),
     session_id |-> FileStem(e.path),
     model_id |-> e.model,
     model_family |-> ModelFamily(e.model),
     input_tokens |-> e.input_tokens,
     cache_creation_input_tokens |-> e.cache_creation_input_tokens,
     cache_read_input_tokens |-> e.cache_read_input_tokens,
     ephemeral_5m_input_tokens |-> e.ephemeral_5m_input_tokens,
     ephemeral_1h_input_tokens |-> e.ephemeral_1h_input_tokens,
     output_tokens |-> e.output_tokens,
     timestamp |-> TryCastTimestamp(e.timestamp),
     week |-> DateTruncWeek(TryCastTimestamp(e.timestamp))]

\* parsed_data of the template: only the days placeholder is present
TopParsedData(evs, days) ==
    LET src == SelectSeq(evs, LAMBDA e : e.usage /\ DaysFilter(e.timestamp, days))
    IN  [i \in 1..Len(src) |-> TopParsed(src[i])]

\* total_cost of one project in the top_projects CTE
TopProjectCost(J, project) ==
    SqlSum(Col(SelectSeq(J, LAMBDA j : j.e.project_id = project), CostAll))

\* ORDER BY total_cost ASC LIMIT 3: the cheapest projects
TopProjectsAscending(evs, pr, days) ==
    LET J == JoinPricingOnFamily(TopParsedData(evs, days), pr)
        projects == {J[i].e.project_id : i \in 1..Len(J)}
        k == IF Cardinality(projects) < TopLimit THEN Cardinality(projects)
             ELSE TopLimit
    IN  {S \in SUBSET projects :
            /\ Cardinality(S) = k
            /\ \A a \in S, b \in projects \ S :
                   TopProjectCost(J, a) <= TopProjectCost(J, b)}

\* The results ORDER BY total_cost DESC LIMIT 3 can produce: every set of
\* min(3, #projects) projects none of which costs less than a project left
\* out (the order among equal costs is not determined)
TopProjects(evs, pr, days) ==
    LET J == JoinPricingOnFamily(TopParsedData(evs, days), pr)
        projects == {J[i].e.project_id : i \in 1..Len(J)}
        k == IF Cardinality(projects) < TopLimit THEN Cardinality(projects)
             ELSE TopLimit
    IN  {S \in SUBSET projects :
            /\ Cardinality(S) = k
            /\ \A a \in S, b \in projects \ S :
                   TopProjectCost(J, a) >= TopProjectCost(J, b)}

\* GROUP BY pd.project_id alone
TopWeeklyKeyProjectOnly(j) == <<j.e.project_id>>

\* GROUP BY pd.project_id, pd.week
TopWeeklyKey(j) == <<j.e.project_id, j.e.week>>

\* ROUND(cost_usd / NULLIF(session_count, 0), 4)
CostPerSession(cost, sessions) ==
    IF sessions = 0 \/ cost = NULL THEN NULL
    ELSE (2 * cost + sessions) \div (2 * sessions)

TopWeeklyRow(g) ==
    [project_id |-> g[1].e.project_id,
     time_bucket |-> g[1].e.week,
     cost_raw |-> SqlSum(Col(g, CostAll)),
     cost_usd |-> Round4(SqlSum(Col(g, CostAll))),
     input_tokens |-> Coalesce0(SqlSum(Col(g, LAMBDA j : j.e.input_tokens))),
     output_tokens |-> Coalesce0(SqlSum(Col(g, LAMBDA j : j.e.output_tokens))),
     total_tokens |->
         Coalesce0(SqlSum(Col(g, LAMBDA j : j.e.input_tokens)))
         + Coalesce0(SqlSum(Col(g, LAMBDA j : j.e.output_tokens))),
     session_count |-> CountDistinct(g, LAMBDA j : j.e.session_id),
     event_count |-> Len(g),
     cost_per_session |->
         CostPerSession(Round4(SqlSum(Col(g, CostAll))),
                        CountDistinct(g, LAMBDA j : j.e.session_id))]

\* weekly_aggregates for the selected projects tp
TopProjectsWeekly(evs, pr, days, tp) ==
    LET pd == SelectSeq(TopParsedData(evs, days), LAMBDA e : e.project_id \in tp)
        J == JoinPricingOnFamily(pd, pr)
    IN  {TopWeeklyRow(g) : g \in GroupBy(J, TopWeeklyKey)}

(***************************************************************************)
(* sessions_list: one row per session that has a main file                 *)
(***************************************************************************)

\* filename LIKE '%/subagents/%'
InSubagentsDir(path) == \E i \in 2..(Len(path) - 1) : path[i] = StrSubagents

\* regexp_extract(filename, 'projects/[^/]+/([^/]+)/subagents/', 1)
SubagentsParent(path) ==
    LET hits == {i \in 1..(Len(path) - 4) :
                    /\ Len(path[i]) >= Len(StrProjects)
                    /\ SubSeq(path[i], Len(path[i]) - Len(StrProjects) + 1,
                              Len(path[i])) = StrProjects
                    /\ path[i + 3] = StrSubagents}
    IN  IF hits = {} THEN <<>>
        ELSE path[(CHOOSE i \in hits : \A j \in hits : i <= j) + 2]

\* The session_id CASE with the agent- file name tested before /subagents/
SessionIdAgentFirst(e) ==
    IF LikePrefix(FileStem(e.path), StrAgentDash) THEN e.sessionId
    ELSE IF InSubagentsDir(e.path) THEN SubagentsParent(e.path)
    ELSE FileStem(e.path)

\* The session_id CASE of all_events
SessionId(e) ==
    IF InSubagentsDir(e.path) THEN SubagentsParent(e.path)
    ELSE IF LikePrefix(FileStem(e.path), StrAgentDash) THEN e.sessionId
    ELSE FileStem(e.path)

\* The is_subagent_file CASE of all_events
IsSubagentFile(e) ==
    IF InSubagentsDir(e.path) THEN TRUE
    ELSE IF LikePrefix(FileStem(e.path), StrAgentDash) THEN TRUE
    ELSE FALSE

AllEventsParsed(e) ==
    [project_id |-> ProjectId(e.path),
     session_id |-> SessionId(e),
     is_subagent_file |-> IsSubagentFile(e),
     filepath |-> e.path,
     agent_id |-> e.agentId,
     model_id |-> e.model,
     input_tokens |-> e.input_tokens,
     output_tokens |-> e.output_tokens,
     cache_creation_input_tokens |-> e.cache_creation_input_tokens,
     cache_read_input_tokens |-> e.cache_read_input_tokens,
     ephemeral_5m_input_tokens |-> e.ephemeral_5m_input_tokens,
     ephemeral_1h_input_tokens |-> e.ephemeral_1h_input_tokens,
     timestamp_utc |-> TryCastTimestamp(e.timestamp)]

\* WHERE timestamp IS NOT NULL __DAYS_FILTER__ __PROJECT_FILTER__
AllEventsWhere(e, days, project) ==
    /\ e.timestamp # NULL
    /\ DaysFilter(e.timestamp, days)
    /\ ProjectFilter(e.path, project)

AllEvents(evs, days, project) ==
    LET src == SelectSeq(evs, LAMBDA e : AllEventsWhere(e, days, project))
    IN  [i \in 1..Len(src) |-> AllEventsParsed(src[i])]

\* WHERE e.input_tokens IS NOT NULL OR e.output_tokens IS NOT NULL
UsageEvents(all) ==
    SelectSeq(all, LAMBDA e : e.input_tokens # NULL \/ e.output_tokens # NULL)

\* One term of the session cost: COALESCE((tokens / 1000000.0) * price, 0)
SessionCostTerm(tok, price) == Coalesce0(SqlMul(tok, price))

SessionCostAll(j) ==
    SessionCostTerm(j.e.input_tokens, j.p.base_input_price)
    + SessionCostTerm(j.e.ephemeral_5m_input_tokens, j.p.cache_5m_write_price)
    + SessionCostTerm(j.e.ephemeral_1h_input_tokens, j.p.cache_1h_write_price)
    + SessionCostTerm(j.e.cache_read_input_tokens, j.p.cache_read_price)
    + SessionCostTerm(j.e.output_tokens, j.p.output_price)

SessionKey(j) == <<j.e.project_id, j.e.session_id>>

SessionCostsRow(g) ==
    [project_id |-> g[1].e.project_id,
     session_id |-> g[1].e.session_id,
     usage_event_count |-> Len(g),
     total_input_tokens |-> Coalesce0(SqlSum(Col(g, LAMBDA j : j.e.input_tokens))),
     total_output_tokens |-> Coalesce0(SqlSum(Col(g, LAMBDA j : j.e.output_tokens))),
     total_cost_usd |-> SqlSum(Col(g, SessionCostAll))]

SessionCosts(all, pr) ==
    {SessionCostsRow(g) : g \in GroupBy(JoinPricingOnModelId(UsageEvents(all), pr), SessionKey)}

\* MIN / MAX of a column: NULL values are skipped
SqlMin(s) ==
    LET nn == {s[i] : i \in 1..Len(s)} \ {NULL}
    IN  IF nn = {} THEN NULL ELSE CHOOSE x \in nn : \A y \in nn : x <= y
SqlMax(s) ==
    LET nn == {s[i] : i \in 1..Len(s)} \ {NULL}
    IN  IF nn = {} THEN NULL ELSE CHOOSE x \in nn : \A y \in nn : x >= y

\* MIN(CASE WHEN NOT is_subagent_file THEN filepath END): the main files of a
\* (project, session) group all have the path projects/<project>/<session>
MainFilepath(g) ==
    LET mains == {g[i].filepath : i \in {k \in 1..Len(g) : ~g[k].is_subagent_file}}
    IN  IF mains = {} THEN NULLSTR ELSE CHOOSE x \in mains : TRUE

SessionStatsRow(g) ==
    [project_id |-> g[1].project_id,
     session_id |-> g[1].session_id,
     event_count |-> Len(g),
     subagent_count |-> Cardinality({g[i].agent_id : i \in 1..Len(g)} \ {NULLSTR}),
     first_timestamp |-> SqlMin([i \in 1..Len(g) |-> g[i].timestamp_utc]),
     last_timestamp |-> SqlMax([i \in 1..Len(g) |-> g[i].timestamp_utc]),
     main_filepath |-> MainFilepath(g)]

SessionStats(all) ==
    LET src == SelectSeq(all, LAMBDA e : e.session_id # NULLSTR)
        keys == {<<src[i].project_id, src[i].session_id>> : i \in 1..Len(src)}
    IN  {SessionStatsRow(SelectSeq(src,
             LAMBDA e : <<e.project_id, e.session_id>> = k)) : k \in keys}

\* session_stats s LEFT JOIN session_costs c, then the final WHERE
SessionsListRow(st, costs) ==
    LET c == {x \in costs : x.project_id = st.project_id /\ x.session_id = st.session_id}
        tin == IF c = {} THEN NULL ELSE (CHOOSE x \in c : TRUE).total_input_tokens
        tout == IF c = {} THEN NULL ELSE (CHOOSE x \in c : TRUE).total_output_tokens
        cost == IF c = {} THEN NULL ELSE (CHOOSE x \in c : TRUE).total_cost_usd
    IN  [project_id |-> st.project_id,
         session_id |-> st.session_id,
         first_timestamp |-> st.first_timestamp,
         last_timestamp |-> st.last_timestamp,
         event_count |-> st.event_count,
         subagent_count |-> st.subagent_count,
         total_input_tokens |-> Coalesce0(tin),
         total_output_tokens |-> Coalesce0(tout),
         total_cost_raw |-> Coalesce0(cost),
         total_cost_usd |-> Round4(Coalesce0(cost)),
         filepath |-> st.main_filepath]

SessionsList(evs, pr, days, project) ==
    LET all == AllEvents(evs, days, project)
        costs == SessionCosts(all, pr)
    IN  {SessionsListRow(st, costs) :
            st \in {x \in SessionStats(all) : x.main_filepath # NULLSTR}}

(***************************************************************************)
(* drilldown_daily_detail and drilldown_projects                           *)
(***************************************************************************)

DrilldownParsed(e) ==
    [project_id |-> ProjectId(e.path),
     session_id |-> FileStem(e.path),
     model_id |-> e.model,
     input_tokens |-> e.input_tokens,
     cache_creation_input_tokens |-> e.cache_creation_input_tokens,
     cache_read_input_tokens |-> e.cache_read_input_tokens,
     ephemeral_5m_input_tokens |-> e.ephemeral_5m_input_tokens,
     ephemeral_1h_input_tokens |-> e.ephemeral_1h_input_tokens,
     output_tokens |-> e.output_tokens,
     timestamp_utc |-> TryCastTimestamp(e.timestamp),
     date_local |-> DateTruncDay(AtMelbourne(TryCastTimestamp(e.timestamp))),
     date_utc |-> DateTruncDay(AtSessionTimeZone(TryCastTimestamp(e.timestamp)))]

\* CASE WHEN date_local != date_utc THEN ... ELSE ... END: a comparison with
\* NULL is not true
TimezoneStatus(date_local, date_utc) ==
    IF date_local # NULL /\ date_utc # NULL /\ date_local # date_utc
    THEN "TIMEZONE_MISMATCH"
    ELSE "ALIGNED"

DailyDetailKey(j) == <<j.e.project_id, j.e.date_local, j.e.date_utc, j.e.model_id>>

DailyDetailRow(g) ==
    [project_id |-> g[1].e.project_id,
     date_local |-> g[1].e.date_local,
     date_utc |-> g[1].e.date_utc,
     timezone_status |-> TimezoneStatus(g[1].e.date_local, g[1].e.date_utc),
     session_count |-> CountDistinct(g, LAMBDA j : j.e.session_id),
     event_count |-> Len(g),
     model_id |-> g[1].e.model_id,
     total_cost_usd |-> Round4(SqlSum(Col(g, CostAll))),
     total_input_tokens |-> Coalesce0(SqlSum(Col(g, LAMBDA j : j.e.input_tokens))),
     total_output_tokens |-> Coalesce0(SqlSum(Col(g, LAMBDA j : j.e.output_tokens)))]

\* The template has no days placeholder; the project is required
DailyDetail(evs, pr, project) ==
    LET src == SelectSeq(evs, LAMBDA e : e.usage)
        pd == [i \in 1..Len(src) |-> DrilldownParsed(src[i])]
        J == SelectSeq(JoinPricingOnModelId(pd, pr), LAMBDA j : j.e.project_id = project)
    IN  {DailyDetailRow(g) : g \in GroupBy(J, DailyDetailKey)}

DrilldownProjectsRow(g) ==
    [project_id |-> g[1].e.project_id,
     first_activity_date_local |-> SqlMin(Col(g, LAMBDA j : j.e.date_local)),
     last_activity_date_local |-> SqlMax(Col(g, LAMBDA j : j.e.date_local)),
     first_activity_date_utc |-> SqlMin(Col(g, LAMBDA j : j.e.date_utc)),
     last_activity_date_utc |-> SqlMax(Col(g, LAMBDA j : j.e.date_utc)),
     session_count |-> CountDistinct(g, LAMBDA j : j.e.session_id),
     event_count |-> Len(g),
     total_cost_usd |-> Round4(SqlSum(Col(g, CostAll))),
     total_input_tokens |-> Coalesce0(SqlSum(Col(g, LAMBDA j : j.e.input_tokens))),
     total_output_tokens |-> Coalesce0(SqlSum(Col(g, LAMBDA j : j.e.output_tokens))),
     total_tokens |->
         Coalesce0(SqlSum(Col(g, LAMBDA j : j.e.input_tokens)))
         + Coalesce0(SqlSum(Col(g, LAMBDA j : j.e.output_tokens)))]

\* The template has no filter placeholder at all
DrilldownProjects(evs, pr) ==
    LET src == SelectSeq(evs, LAMBDA e : e.usage)
        pd == [i \in 1..Len(src) |-> DrilldownParsed(src[i])]
        J == JoinPricingOnModelId(pd, pr)
    IN  {DrilldownProjectsRow(g) : g \in GroupBy(J, LAMBDA j : j.e.project_id)}

(***************************************************************************)
(* timeline_events: the events of one project, one row per event           *)
(***************************************************************************)

\* WHERE project = '__PROJECT_FILTER__' AND type IN ('user', 'assistant',
\* 'system') AND timestamp IS NOT NULL __DAYS_FILTER__
TimelineWhere(e, days, project) ==
    /\ ProjectId(e.path) = project
    /\ e.type \in {"user", "assistant", "system"}
    /\ e.timestamp # NULL
    /\ DaysFilter(e.timestamp, days)

TimelineParsed(e) ==
    [project_id |-> ProjectId(e.path),
     session_id |-> FileStem(e.path),
     model_id |-> e.model,
     event_type |-> e.type,
     input_tokens |-> e.input_tokens,
     output_tokens |-> e.output_tokens,
     cache_read_tokens |-> e.cache_read_input_tokens,
     cache_creation_tokens |-> e.cache_creation_input_tokens,
     cache_5m_tokens |-> e.ephemeral_5m_input_tokens,
     timestamp_utc |-> TryCastTimestamp(e.timestamp)]

ParsedEvents(evs, days, project) ==
    LET src == SelectSeq(evs, LAMBDA e : TimelineWhere(e, days, project))
    IN  [i \in 1..Len(src) |-> TimelineParsed(src[i])]

\* ORDER BY t (ascending, NULLS LAST): a may come before b
TsLeq(a, b) == b = NULL \/ (a # NULL /\ a <= b)

\* The orders a window ORDER BY timestamp can take: every permutation of the
\* rows that is sorted by timestamp (the order among equal keys is free)
SortedOrders(pe) ==
    {f \in [1..Len(pe) -> 1..Len(pe)] :
        /\ \A a, b \in 1..Len(pe) : f[a] = f[b] => a = b
        /\ \A a, b \in 1..Len(pe) :
               a < b => TsLeq(pe[f[a]].timestamp_utc, pe[f[b]].timestamp_utc)}

\* The rows of the partition of row i that the order puts at or before it
UpTo(pe, ord, i) ==
    LET pos == CHOOSE k \in 1..Len(pe) : ord[k] = i
    IN  {ord[k] : k \in {x \in 1..pos : pe[ord[x]].session_id = pe[i].session_id}}

\* ROW_NUMBER() OVER (PARTITION BY <file stem> ORDER BY timestamp)
EventSeq(pe, ord, i) == Cardinality(UpTo(pe, ord, i))

\* SUM(COALESCE(output_tokens, 0)) OVER (PARTITION BY session_id ORDER BY
\* timestamp_utc ROWS BETWEEN UNBOUNDED PRECEDING AND CURRENT ROW)
CumulativeOutputTokens(pe, ord, i) ==
    SumSeq([k \in 1..Len(pe) |->
        IF k \in UpTo(pe, ord, i) THEN Coalesce0(pe[k].output_tokens) ELSE 0])

\* MIN(timestamp_utc) of the session of row i
FirstEventTime(pe, i) ==
    SqlMin([k \in 1..Len(pe) |->
        IF pe[k].session_id = pe[i].session_id THEN pe[k].timestamp_utc ELSE NULL])

TimelineRow(pe, seqOrd, cumOrd, i) ==
    [project_id |-> pe[i].project_id,
     session_id |-> pe[i].session_id,
     event_seq |-> EventSeq(pe, seqOrd, i),
     model_id |-> pe[i].model_id,
     event_type |-> pe[i].event_type,
     timestamp_utc |-> pe[i].timestamp_utc,
     first_event_time |-> FirstEventTime(pe, i),
     input_tokens |-> Coalesce0(pe[i].input_tokens),
     output_tokens |-> Coalesce0(pe[i].output_tokens),
     cache_read_tokens |-> Coalesce0(pe[i].cache_read_tokens),
     cache_creation_tokens |-> Coalesce0(pe[i].cache_creation_tokens),
     cache_5m_tokens |-> Coalesce0(pe[i].cache_5m_tokens),
     total_tokens |-> Coalesce0(pe[i].input_tokens) + Coalesce0(pe[i].output_tokens),
     cumulative_output_tokens |-> CumulativeOutputTokens(pe, cumOrd, i)]

\* The responses the template can produce: one per pair of window orders
TimelineEvents(evs, days, project) ==
    LET pe == ParsedEvents(evs, days, project)
    IN  {{TimelineRow(pe, seqOrd, cumOrd, i) : i \in 1..Len(pe)} :
            seqOrd \in SortedOrders(pe), cumOrd \in SortedOrders(pe)}

(***************************************************************************)
(* drilldown_events: the usage events of one session file, one row each    *)
(***************************************************************************)

\* ROUND(c, 6), in millionths of a dollar
Round6(c) == IF c = NULL THEN NULL ELSE (c + 2) \div 4

\* parsed_data with its window column: event_seq numbers the rows of every
\* file stem of the whole glob, before the outer filter
DrilldownEventsParsed(pd, ord) ==
    [i \in 1..Len(pd) |-> pd[i] @@ [event_seq |-> EventSeq(pd, ord, i)]]

DrilldownEventsRow(j) ==
    [project_id |-> j.e.project_id,
     session_id |-> j.e.session_id,
     event_seq |-> j.e.event_seq,
     model_id |-> j.e.model_id,
     timestamp_utc |-> j.e.timestamp_utc,
     input_tokens |-> Coalesce0(j.e.input_tokens),
     output_tokens |-> Coalesce0(j.e.output_tokens),
     event_cost_usd |-> Round6(CostAll(j))]

\* The responses the template can produce: one per window order
DrilldownEvents(evs, pr, project, session) ==
    LET src == SelectSeq(evs, LAMBDA e : e.usage)
        pd == [i \in 1..Len(src) |-> DrilldownParsed(src[i])]
    IN  {LET J == JoinPricingOnModelId(DrilldownEventsParsed(pd, ord), pr)
         IN  {DrilldownEventsRow(J[k]) :
                 k \in {x \in 1..Len(J) :
                           /\ J[x].e.project_id = project
                           /\ J[x].e.session_id = session}} :
            ord \in SortedOrders(pd)}

(***************************************************************************)
(* session_events: every event of the files of one session                 *)
(***************************************************************************)

\* The files '__SESSION_GLOB__' may select for session s of project p: its
\* main file, the files under its subagents/ directory, and the agent-*
\* files beside the main file
SessionGlobs(p, s) ==
    { {MainPath(p, s)},
      {MainPath(p, s), SubagentPath(p, s, AgentX)},
      {MainPath(p, s), SubagentPath(p, s, AgentX), LegacyAgentPath(p, Agent7)} }

\* raw_data: WHERE timestamp IS NOT NULL AND type IS NOT NULL over the glob
RawData(evs, glob) ==
    LET src == SelectSeq(evs, LAMBDA e :
                   e.path \in glob /\ e.timestamp # NULL /\ e.type # "absent")
    IN  [i \in 1..Len(src) |->
            [filename |-> src[i].path,
             timestamp_utc |-> TryCastTimestamp(src[i].timestamp),
             rec |-> src[i]]]

\* ROW_NUMBER() OVER (PARTITION BY filename ORDER BY timestamp)
LineNumber(rd, ord, i) ==
    LET pos == CHOOSE k \in 1..Len(rd) : ord[k] = i
    IN  Cardinality({ord[k] : k \in {x \in 1..pos : rd[ord[x]].filename = rd[i].filename}})

SessionEventsRow(rd, ord, i) ==
    [event_type |-> rd[i].rec.type,
     timestamp |-> rd[i].timestamp_utc,
     session_id |-> rd[i].rec.sessionId,
     agent_id |-> NULLSTR,
     is_sidechain |-> FALSE,
     model_id |-> rd[i].rec.model,
     input_tokens |-> Coalesce0(rd[i].rec.input_tokens),
     output_tokens |-> Coalesce0(rd[i].rec.output_tokens),
     cache_read_tokens |-> Coalesce0(rd[i].rec.cache_read_input_tokens),
     filepath |-> rd[i].filename,
     is_subagent_file |-> InSubagentsDir(rd[i].filename),
     source_file |-> FileStem(rd[i].filename),
     line_number |-> LineNumber(rd, ord, i)]

\* The responses the template can produce: one per window order
SessionEvents(evs, glob) ==
    LET rd == RawData(evs, glob)
    IN  {{SessionEventsRow(rd, ord, i) : i \in 1..Len(rd)} : ord \in SortedOrders(rd)}

(***************************************************************************)
(* schema timeline: one row per day per JSON path                          *)
(***************************************************************************)

V1 == <<"1",".","0">>
V2 == <<"2",".","0">>

\* A log record with its version field, and the modification day that
\* file_mtimes holds for its file (NULL: the file is not in file_mtimes)
SchemaRecord(path, sid, aid, type, usage, inp, ts, version, mtime) ==
    Record(path, sid, aid, "absent", type, NULLSTR, usage, inp, NULL, NULL, NULL,
           NULL, NULL, ts)
    @@ [version |-> version, mtime_date |-> mtime]

\* The JSON paths followed here, in the order of ORDER BY json_path
SchemaPaths ==
    << "agentId", "message.usage", "message.usage.input_tokens",
       "sessionId", "timestamp", "type", "version" >>

PathRank(p) == CHOOSE i \in 1..Len(SchemaPaths) : SchemaPaths[i] = p

\* The has_<path> columns: j.<path> IS NOT NULL
HasPath(e, p) ==
    CASE p = "agentId" -> e.agentId # NULLSTR
      [] p = "message.usage" -> e.usage
      [] p = "message.usage.input_tokens" -> e.input_tokens # NULL
      [] p = "sessionId" -> e.sessionId # NULLSTR
      [] p = "timestamp" -> e.timestamp # NULL
      [] p = "type" -> e.type # "absent"
      [] p = "version" -> e.version # NULLSTR

\* __DAYS_FILTER__ of daily_events, on the event date
SchemaDaysFilter(date, days) ==
    \/ days <= 0
    \/ date >= DateTruncDay(Now) - days

\* raw_events: the records of the glob left-joined with file_mtimes
RawEvents(evs, project) ==
    LET src == SelectSeq(evs, LAMBDA e : ProjectFilter(e.path, project))
    IN  [i \in 1..Len(src) |->
            LET day == DateTruncDay(AtSessionTimeZone(TryCastTimestamp(src[i].timestamp)))
            IN  [event_date |-> IF day # NULL THEN day ELSE src[i].mtime_date,
                 has_record_timestamp |-> src[i].timestamp # NULL,
                 version |-> src[i].version,
                 rec |-> src[i]]]

\* The rows of path_events of one (json_path, event_date) group, as indices
\* of raw_events
PathDayGroup(re, days, p, d) ==
    {i \in 1..Len(re) :
        /\ HasPath(re[i].rec, p)
        /\ re[i].event_date # NULL
        /\ SchemaDaysFilter(re[i].event_date, days)
        /\ re[i].event_date = d}

\* MODE(version): a non-NULL value of the highest count (any of them on a
\* tie), NULL when every value is NULL
Modes(re, g) ==
    LET count(v) == Cardinality({i \in g : re[i].version = v})
        vs == {re[i].version : i \in g} \ {NULLSTR}
    IN  IF vs = {} THEN {NULLSTR}
        ELSE {v \in vs : \A w \in vs : count(w) <= count(v)}

DailyEventsRow(re, days, p, d, v) ==
    [json_path |-> p,
     event_date |-> d,
     version |-> v,
     has_record_timestamp |->
         \E i \in PathDayGroup(re, days, p, d) : re[i].has_record_timestamp,
     event_count |-> Cardinality(PathDayGroup(re, days, p, d))]

\* daily_events: one row per group; one result per choice of the modes
RECURSIVE DailyEvents(_, _, _)
DailyEvents(re, days, keys) ==
    IF keys = {} THEN {{}}
    ELSE LET k == CHOOSE x \in keys : TRUE
         IN  {rest \cup {DailyEventsRow(re, days, k[1], k[2], v)} :
                 rest \in DailyEvents(re, days, keys \ {k}),
                 v \in Modes(re, PathDayGroup(re, days, k[1], k[2]))}

\* path_first_seen joined to daily_events
WithFirstSeen(de) ==
    {r @@ [first_seen |->
              LET ds == {o.event_date : o \in {x \in de : x.json_path = r.json_path}}
              IN  CHOOSE d \in ds : \A o \in ds : d <= o] :
        r \in de}

\* ORDER BY json_path first, then first_seen and event_date
SchemaOrderPathFirst(a, b) ==
    \/ PathRank(a.json_path) < PathRank(b.json_path)
    \/ /\ a.json_path = b.json_path
       /\ \/ a.first_seen < b.first_seen
          \/ a.first_seen = b.first_seen /\ a.event_date <= b.event_date

\* ORDER BY pfs.first_seen ASC, de.json_path, de.event_date: a is not after b
SchemaOrder(a, b) ==
    \/ a.first_seen < b.first_seen
    \/ /\ a.first_seen = b.first_seen
       /\ \/ PathRank(a.json_path) < PathRank(b.json_path)
          \/ a.json_path = b.json_path /\ a.event_date <= b.event_date

RECURSIVE OrderedRows(_)
OrderedRows(R) ==
    IF R = {} THEN <<>>
    ELSE LET m == CHOOSE r \in R : \A o \in R : SchemaOrder(r, o)
         IN  <<m>> \o OrderedRows(R \ {m})

\* The responses the template can produce, each a list of rows
SchemaTimeline(evs, days, project) ==
    LET re == RawEvents(evs, project)
        keys == {<<p, re[i].event_date>> :
                    p \in {SchemaPaths[n] : n \in 1..Len(SchemaPaths)},
                    i \in 1..Len(re)}
        live == {k \in keys : PathDayGroup(re, days, k[1], k[2]) # {}}
    IN  {OrderedRows(WithFirstSeen(de)) : de \in DailyEvents(re, days, live)}

(***************************************************************************)
(* Frontend: the filters kept in the URL (useFilters.ts, Layout.tsx)       *)
(***************************************************************************)

\* The JavaScript values null and NaN of a number | null
JsNull == 0 - 1000001
NaN == 0 - 1000000

DEFAULT_DAYS == 30

StrDays == <<"d","a","y","s">>
StrProject == <<"p","r","o","j","e","c","t">>

Digits == <<"0","1","2","3","4","5","6","7","8","9">>

IsDigit(c) == \E i \in 1..10 : Digits[i] = c

DigitValue(c) == (CHOOSE i \in 1..10 : Digits[i] = c) - 1

RECURSIVE ToDigits(_)
ToDigits(n) ==
    IF n < 10 THEN <<Digits[n + 1]>>
    ELSE ToDigits(n \div 10) \o <<Digits[(n % 10) + 1]>>

\* String(n) of a number
String(n) ==
    IF n = NaN THEN <<"N","a","N">>
    ELSE IF n < 0 THEN <<"-">> \o ToDigits(0 - n)
    ELSE ToDigits(n)

RECURSIVE DigitsValue(_, _)
DigitsValue(s, acc) ==
    IF s = <<>> \/ ~IsDigit(Head(s)) THEN acc
    ELSE DigitsValue(Tail(s), 10 * acc + DigitValue(Head(s)))

RECURSIVE TrimStart(_)
TrimStart(s) == IF s # <<>> /\ Head(s) = " " THEN TrimStart(Tail(s)) ELSE s

\* parseInt(s, 10): leading white space, a sign, then the longest run of
\* digits; NaN when there is no digit
ParseInt(s) ==
    LET t == TrimStart(s)
        signed == t # <<>> /\ Head(t) \in {"-", "+"}
        body == IF signed THEN Tail(t) ELSE t
    IN  IF body = <<>> \/ ~IsDigit(Head(body)) THEN NaN
        ELSE IF signed /\ Head(t) = "-" THEN 0 - DigitsValue(body, 0)
        ELSE DigitsValue(body, 0)

\* The percent-encoded bytes that occur in the URLs of the model
PercentCodes ==
    { <<"/", <<"%","2","F">>>>, <<"%", <<"%","2","5">>>>, <<"&", <<"%","2","6">>>>,
      <<"=", <<"%","3","D">>>>, <<"+", <<"%","2","B">>>>, <<"?", <<"%","3","F">>>> }

\* URLSearchParams serialisation of one character: a space is "+", the
\* characters outside the safe set are percent-encoded
EncodeChar(c) ==
    IF c = " " THEN <<"+">>
    ELSE IF \E pc \in PercentCodes : pc[1] = c
         THEN (CHOOSE pc \in PercentCodes : pc[1] = c)[2]
         ELSE <<c>>

RECURSIVE EncodeStr(_)
EncodeStr(s) == IF s = <<>> THEN <<>> ELSE EncodeChar(Head(s)) \o EncodeStr(Tail(s))

\* URLSearchParams parsing of a name or a value: "+" is a space, %XX is the
\* byte XX, a "%" that is not followed by two hex digits is kept
RECURSIVE DecodeStr(_)
DecodeStr(s) ==
    IF s = <<>> THEN <<>>
    ELSE IF Head(s) = "+" THEN <<" ">> \o DecodeStr(Tail(s))
    ELSE IF /\ Head(s) = "%"
            /\ Len(s) >= 3
            /\ \E pc \in PercentCodes : pc[2] = SubSeq(s, 1, 3)
         THEN <<(CHOOSE pc \in PercentCodes : pc[2] = SubSeq(s, 1, 3))[1]>>
              \o DecodeStr(SubSeq(s, 4, Len(s)))
         ELSE <<Head(s)>> \o DecodeStr(Tail(s))

\* The index of the first c in s, 0 when there is none
IndexOf(s, c) ==
    IF \E i \in 1..Len(s) : s[i] = c
    THEN CHOOSE i \in 1..Len(s) : s[i] = c /\ \A j \in 1..(i - 1) : s[j] # c
    ELSE 0

RECURSIVE Split(_, _)
Split(s, c) ==
    IF IndexOf(s, c) = 0 THEN <<s>>
    ELSE <<SubSeq(s, 1, IndexOf(s, c) - 1)>> \o Split(SubSeq(s, IndexOf(s, c) + 1, Len(s)), c)

\* new URLSearchParams(search): the list of (name, value) pairs
URLSearchParams(search) ==
    LET body == IF search # <<>> /\ Head(search) = "?" THEN Tail(search) ELSE search
        pieces == SelectSeq(Split(body, "&"), LAMBDA x : x # <<>>)
    IN  [i \in 1..Len(pieces) |->
            LET eq == IndexOf(pieces[i], "=")
            IN  IF eq = 0 THEN <<DecodeStr(pieces[i]), <<>>>>
                ELSE <<DecodeStr(SubSeq(pieces[i], 1, eq - 1)),
                       DecodeStr(SubSeq(pieces[i], eq + 1, Len(pieces[i])))>>]

\* params.get(name): the value of the first pair of that name, or null
ParamsGet(params, name) ==
    LET hits == {i \in 1..Len(params) : params[i][1] = name}
    IN  IF hits = {} THEN NULLSTR
        ELSE params[CHOOSE i \in hits : \A j \in hits : i <= j][2]

\* params.delete(name)
ParamsDelete(params, name) == SelectSeq(params, LAMBDA kv : kv[1] # name)

\* params.set(name, value): the first pair of that name takes the value and
\* the others are removed; a new pair is appended when there is none
ParamsSet(params, name, value) ==
    LET hits == {i \in 1..Len(params) : params[i][1] = name}
    IN  IF hits = {} THEN Append(params, <<name, value>>)
        ELSE LET first == CHOOSE i \in hits : \A j \in hits : i <= j
                 kept == {i \in 1..Len(params) : i = first \/ params[i][1] # name}
                 idx == CHOOSE f \in [1..Cardinality(kept) -> kept] :
                            \A a, b \in 1..Cardinality(kept) : a < b => f[a] < f[b]
             IN  [k \in 1..Cardinality(kept) |->
                     IF idx[k] = first THEN <<name, value>> ELSE params[idx[k]]]

\* params.toString()
RECURSIVE ParamsToString(_)
ParamsToString(params) ==
    IF params = <<>> THEN <<>>
    ELSE EncodeStr(params[1][1]) \o <<"=">> \o EncodeStr(params[1][2])
         \o (IF Len(params) = 1 THEN <<>> ELSE <<"&">> \o ParamsToString(Tail(params)))

\* The search of the location a router navigation to "?" + params ends at
SearchOf(params) ==
    IF ParamsToString(params) = <<>> THEN <<>> ELSE <<"?">> \o ParamsToString(params)

\* filters: the filters parsed from the URL
Filters(search) ==
    LET daysParam == ParamsGet(URLSearchParams(search), StrDays)
        projectParam == ParamsGet(URLSearchParams(search), StrProject)
    IN  [days |-> IF daysParam # NULLSTR THEN ParseInt(daysParam) ELSE DEFAULT_DAYS,
         project |-> IF projectParam = NULLSTR \/ projectParam = <<>> THEN NULLSTR
                     ELSE projectParam]

\* setFilters rebuilding the search from the two filter parameters alone
SetFiltersDroppingOthers(search, updates) ==
    LET prev == SelectSeq(URLSearchParams(search),
                          LAMBDA kv : kv[1] \in {StrDays, StrProject})
        withDays ==
            IF "days" \notin DOMAIN updates THEN prev
            ELSE IF updates.days = JsNull \/ updates.days = DEFAULT_DAYS
                 THEN ParamsDelete(prev, StrDays)
                 ELSE ParamsSet(prev, StrDays, String(updates.days))
        withProject ==
            IF "project" \notin DOMAIN updates THEN withDays
            ELSE IF updates.project = NULLSTR \/ updates.project = <<>>
                 THEN ParamsDelete(withDays, StrProject)
                 ELSE ParamsSet(withDays, StrProject, updates.project)
    IN  SearchOf(withProject)

\* setFilters with DEFAULT_DAYS written like any other value
SetFiltersKeepDefault(search, updates) ==
    LET prev == URLSearchParams(search)
        withDays ==
            IF "days" \notin DOMAIN updates THEN prev
            ELSE IF updates.days = JsNull
                 THEN ParamsDelete(prev, StrDays)
                 ELSE ParamsSet(prev, StrDays, String(updates.days))
        withProject ==
            IF "project" \notin DOMAIN updates THEN withDays
            ELSE IF updates.project = NULLSTR \/ updates.project = <<>>
                 THEN ParamsDelete(withDays, StrProject)
                 ELSE ParamsSet(withDays, StrProject, updates.project)
    IN  SearchOf(withProject)

\* setFilters(updates): the search of the URL after the update
SetFilters(search, updates) ==
    LET prev == URLSearchParams(search)
        withDays ==
            IF "days" \notin DOMAIN updates THEN prev
            ELSE IF updates.days = JsNull \/ updates.days = DEFAULT_DAYS
                 THEN ParamsDelete(prev, StrDays)
                 ELSE ParamsSet(prev, StrDays, String(updates.days))
        withProject ==
            IF "project" \notin DOMAIN updates THEN withDays
            ELSE IF updates.project = NULLSTR \/ updates.project = <<>>
                 THEN ParamsDelete(withDays, StrProject)
                 ELSE ParamsSet(withDays, StrProject, updates.project)
    IN  SearchOf(withProject)

\* The updates of updateParams applied in the order of Object.entries: a
\* null or empty value deletes the parameter, any other value sets it
RECURSIVE ApplyUpdates(_, _)
ApplyUpdates(params, updates) ==
    IF updates = <<>> THEN params
    ELSE ApplyUpdates(IF updates[1][2] = NULLSTR \/ updates[1][2] = <<>>
                      THEN ParamsDelete(params, updates[1][1])
                      ELSE ParamsSet(params, updates[1][1], updates[1][2]),
                      Tail(updates))

\* updateParams(updates) of the Timeline page: the search after the update
UpdateParams(search, updates) == SearchOf(ApplyUpdates(URLSearchParams(search), updates))

\* navigateWithFilters(path) without the current parameters
NavigateDroppingFilters(path, search) == [pathname |-> path, search |-> <<>>]

\* navigateWithFilters(path): the location navigated to
NavigateWithFilters(path, search) ==
    [pathname |-> path, search |-> SearchOf(URLSearchParams(search))]

\* buildNavTo(path) of the sidebar, and the location its link leads to
BuildNavTo(path, search) == [pathname |-> path, search |-> search]

\* buildApiQuery() with a days parameter for every non-null days
BuildApiQueryAnyDays(filters) ==
    LET withDays == IF filters.days # JsNull
                    THEN ParamsSet(<<>>, StrDays, String(filters.days)) ELSE <<>>
        withProject == IF filters.project # NULLSTR
                       THEN ParamsSet(withDays, StrProject, filters.project) ELSE withDays
    IN  SearchOf(withProject)

\* buildApiQuery(): the query string of a data request
BuildApiQuery(filters) ==
    LET withDays == IF filters.days # JsNull /\ filters.days # NaN /\ filters.days > 0
                    THEN ParamsSet(<<>>, StrDays, String(filters.days)) ELSE <<>>
        withProject == IF filters.project # NULLSTR
                       THEN ParamsSet(withDays, StrProject, filters.project) ELSE withDays
    IN  SearchOf(withProject)

\* projectsUrl: the query string of the project list request
ProjectsUrl(filters) ==
    LET params == IF filters.days # JsNull /\ filters.days # NaN /\ filters.days > 0
                  THEN ParamsSet(<<>>, StrDays, String(filters.days)) ELSE <<>>
    IN  SearchOf(params)

(***************************************************************************)
(* State machine                                                           *)
(***************************************************************************)

\* Longest log explored
MaxEvents == 3

\* The values of the days parameter: 0 is "all time"
DaysChoices == {0, 7}

\* The values of the project parameter: NULLSTR is "no project filter"
ProjectChoices == {NULLSTR, P1}

\* Records that may be appended to the usage logs
UsagePool ==
    { \* the two records of the end-to-end scenario: 1,000,000 input tokens
      \* and 500,000 output tokens of one sonnet session
      Record(MainPath(P1, S1), S1, NULLSTR, "absent", "assistant", ModelSonnet, TRUE,
             1000000, NULL, NULL, NULL, NULL, NULL, At(8, 10, 0)),
      Record(MainPath(P1, S1), S1, NULLSTR, "absent", "assistant", ModelSonnet, TRUE,
             NULL, 500000, NULL, NULL, NULL, NULL, At(8, 11, 0)),
      \* a small turn with all five token fields, at 2025-01-01T23:30Z
      Record(MainPath(P1, S2), S2, NULLSTR, "false", "assistant", ModelSonnet, TRUE,
             13, 3, 19, 150, 12, 7, At(2, 23, 30)),
      \* a model without a pricing row and with missing token fields
      Record(MainPath(P2, S3), S3, NULLSTR, "true", "assistant", ModelOther, TRUE,
             1000, NULL, NULL, 40, NULL, NULL, At(9, 2, 0)),
      \* one-hour cache writes and a timestamp that does not parse
      Record(MainPath(P1, S1), S1, NULLSTR, "absent", "assistant", ModelSonnet, TRUE,
             NULL, NULL, 1000000, NULL, NULL, 1000000, Malformed),
      \* a user turn: no usage block
      Record(MainPath(P1, S1), S1, NULLSTR, "absent", "user", NULLSTR, FALSE,
             NULL, NULL, NULL, NULL, NULL, NULL, At(8, 9, 0)) }

\* null in a component state that otherwise holds a string
NullState == "null"

\* useApi(endpoint) after its first render and effect: no data, loading =
\* (endpoint !== null), and the request of the endpoint in flight (latest
\* marks the request started by the last run of the effect)
EndpointA == "/usage/hourly?days=7"
EndpointB == "/usage/hourly?days=90"
UseApiMounted ==
    [endpoint |-> EndpointA, data |-> NullState, loading |-> TRUE, error |-> NullState,
     inFlight |-> <<[endpoint |-> EndpointA, latest |-> TRUE]>>]

\* DrillDown after its first render and effect: the projects level, nothing
\* selected, no list, and fetchProjects in flight
DrillDownMounted ==
    [viewLevel |-> "projects", selectedProject |-> NullState, selectedSession |-> NullState,
     projects |-> {}, sessions |-> {}, events |-> {}, dailyDetails |-> {},
     loading |-> TRUE, error |-> NullState, inFlight |-> <<"projects">>]

NoQuery == [view |-> "none", days |-> 0, project |-> NULLSTR]

Query(view, days, project) == [view |-> view, days |-> days, project |-> project]

Init ==
    /\ files = <<>>
    /\ pricing \in PricingTables
    /\ q = NoQuery
    /\ rows = {}
    /\ location = [pathname |-> "/", search |-> <<>>]
    /\ lastChange = [op |-> "load", updates |-> <<>>,
                     applied |-> [days |-> DEFAULT_DAYS, project |-> NULLSTR]]
    /\ api = UseApiMounted
    /\ drill = DrillDownMounted

\* One record is appended to a log file (between two requests: a request is
\* one synchronous pass over the log as it is at that instant)
AppendRecord(pool, max) ==
    /\ q = NoQuery
    /\ Len(files) < max
    /\ \E e \in pool : files' = Append(files, e)
    /\ UNCHANGED <<pricing, q, rows, location, lastChange, api, drill>>

\* The caller takes the response
Receive ==
    /\ q # NoQuery
    /\ q' = NoQuery
    /\ rows' = {}
    /\ UNCHANGED <<files, pricing, location, lastChange, api, drill>>

\* GET /api/usage/weekly
RunByWeek ==
    /\ q = NoQuery
    /\ \E days \in DaysChoices, project \in ProjectChoices :
        /\ q' = Query("by_week", days, project)
        /\ rows' = ByWeek(files, pricing, days, project)
    /\ UNCHANGED <<files, pricing, location, lastChange, api, drill>>

\* GET /api/usage/hourly
RunByHour ==
    /\ q = NoQuery
    /\ \E days \in DaysChoices, project \in ProjectChoices :
        /\ q' = Query("by_hour", days, project)
        /\ rows' = ByHour(files, pricing, days, project)
    /\ UNCHANGED <<files, pricing, location, lastChange, api, drill>>

\* GET /api/summary
RunSummary ==
    /\ q = NoQuery
    /\ \E days \in DaysChoices, project \in ProjectChoices :
        /\ q' = Query("summary", days, project)
        /\ rows' = Summary(files, pricing, days, project)
    /\ UNCHANGED <<files, pricing, location, lastChange, api, drill>>

\* GET /api/usage/sessions
RunSessions ==
    /\ q = NoQuery
    /\ \E days \in DaysChoices, project \in ProjectChoices :
        /\ q' = Query("sessions", days, project)
        /\ rows' = Sessions(files, pricing, days, project)
    /\ UNCHANGED <<files, pricing, location, lastChange, api, drill>>

\* GET /api/usage/top-projects-weekly
RunTopProjectsWeekly ==
    /\ q = NoQuery
    /\ \E days \in DaysChoices :
        \E tp \in TopProjects(files, pricing, days) :
            /\ q' = Query("top_projects_weekly", days, NULLSTR)
            /\ rows' = TopProjectsWeekly(files, pricing, days, tp)
    /\ UNCHANGED <<files, pricing, location, lastChange, api, drill>>

\* GET /api/sessions
RunSessionsList ==
    /\ q = NoQuery
    /\ \E days \in DaysChoices, project \in ProjectChoices :
        /\ q' = Query("sessions_list", days, project)
        /\ rows' = SessionsList(files, pricing, days, project)
    /\ UNCHANGED <<files, pricing, location, lastChange, api, drill>>

\* GET /api/drilldown/daily-detail for one project
RunDailyDetail ==
    /\ q = NoQuery
    /\ \E project \in ProjectChoices \ {NULLSTR} :
        /\ q' = Query("daily_detail", 0, project)
        /\ rows' = DailyDetail(files, pricing, project)
    /\ UNCHANGED <<files, pricing, location, lastChange, api, drill>>

\* GET /api/drilldown/projects
RunDrilldownProjects ==
    /\ q = NoQuery
    /\ q' = Query("drilldown_projects", 0, NULLSTR)
    /\ rows' = DrilldownProjects(files, pricing)
    /\ UNCHANGED <<files, pricing, location, lastChange, api, drill>>

\* GET /api/timeline/events/{project}
RunTimelineEvents ==
    /\ q = NoQuery
    /\ \E days \in DaysChoices, project \in ProjectChoices \ {NULLSTR} :
        \E res \in TimelineEvents(files, days, project) :
            /\ q' = Query("timeline_events", days, project)
            /\ rows' = res
    /\ UNCHANGED <<files, pricing, location, lastChange, api, drill>>

\* GET /api/drilldown/events for one session file of one project
RunDrilldownEvents ==
    /\ q = NoQuery
    /\ \E project \in {P1, P2}, session \in {S1, Agent7} :
        \E res \in DrilldownEvents(files, pricing, project, session) :
            /\ q' = [view |-> "drilldown_events", days |-> 0,
                     project |-> project, session |-> session]
            /\ rows' = res
    /\ UNCHANGED <<files, pricing, location, lastChange, api, drill>>

\* GET /api/sessions/<project>/<session>/events
RunSessionEvents ==
    /\ q = NoQuery
    /\ \E glob \in SessionGlobs(P1, S1) :
        \E res \in SessionEvents(files, glob) :
            /\ q' = [view |-> "session_events", days |-> 0,
                     project |-> P1, session |-> S1, glob |-> glob]
            /\ rows' = res
    /\ UNCHANGED <<files, pricing, location, lastChange, api, drill>>

\* GET /api/schema-timeline
RunSchemaTimeline ==
    /\ q = NoQuery
    /\ \E days \in DaysChoices, project \in ProjectChoices :
        \E res \in SchemaTimeline(files, days, project) :
            /\ q' = Query("schema_timeline", days, project)
            /\ rows' = res
    /\ UNCHANGED <<files, pricing, location, lastChange, api, drill>>

Next ==
    \/ AppendRecord(UsagePool, MaxEvents)
    \/ Receive
    \/ RunByWeek
    \/ RunByHour
    \/ RunSummary
    \/ RunSessions
    \/ RunTopProjectsWeekly
    \/ RunSessionsList
    \/ RunDailyDetail
    \/ RunDrilldownProjects
    \/ RunTimelineEvents

Spec == Init /\ [][Next]_vars

\* Longest log explored for the top-projects view
MaxTopEvents == 4

\* Records of four projects: 100, 90, 80 and 79 USD of haiku input tokens in
\* the week of 2025-01-06, and for two of the projects a record in the week
\* of 2024-12-30, one of them of a model without a price
TopPool ==
    { Record(MainPath(PA, S1), S1, NULLSTR, "absent", "assistant", ModelHaiku, TRUE,
             100000000, NULL, NULL, NULL, NULL, NULL, At(8, 10, 0)),
      Record(MainPath(PB, S1), S1, NULLSTR, "absent", "assistant", ModelHaiku, TRUE,
             90000000, NULL, NULL, NULL, NULL, NULL, At(9, 10, 0)),
      Record(MainPath(PC, S1), S1, NULLSTR, "absent", "assistant", ModelHaiku, TRUE,
             80000000, NULL, NULL, NULL, NULL, NULL, At(10, 10, 0)),
      Record(MainPath(PD, S1), S1, NULLSTR, "absent", "assistant", ModelHaiku, TRUE,
             79000000, NULL, NULL, NULL, NULL, NULL, At(11, 10, 0)),
      Record(MainPath(PA, S2), S2, NULLSTR, "absent", "assistant", ModelHaiku, TRUE,
             1000000, NULL, NULL, NULL, NULL, NULL, At(2, 10, 0)),
      Record(MainPath(PD, S2), S2, NULLSTR, "absent", "assistant", ModelOther, TRUE,
             5000, 100, NULL, NULL, NULL, NULL, At(3, 10, 0)) }

NextTop ==
    \/ AppendRecord(TopPool, MaxTopEvents)
    \/ Receive
    \/ RunTopProjectsWeekly

SpecTop == Init /\ [][NextTop]_vars

\* Longest log explored for the file layouts
MaxFileEvents == 3

\* Records of one session in its three file layouts, and of a second session
FilesPool ==
    { \* the main file of session s1
      Record(MainPath(P1, S1), S1, NULLSTR, "false", "assistant", ModelSonnet, TRUE,
             1000, 100, NULL, NULL, NULL, NULL, At(8, 10, 0)),
      \* an agent-<id>.jsonl file beside it whose records carry sessionId s1
      Record(LegacyAgentPath(P1, Agent7), S1, <<"7">>, "true", "assistant", ModelSonnet, TRUE,
             2000, 200, NULL, NULL, NULL, NULL, At(8, 10, 30)),
      \* a file under <s1>/subagents/
      Record(SubagentPath(P1, S1, AgentX), S1, <<"x">>, "true", "assistant", ModelSonnet, TRUE,
             3000, 300, NULL, NULL, NULL, NULL, At(8, 11, 0)),
      \* the main file of session s2
      Record(MainPath(P1, S2), S2, NULLSTR, "false", "assistant", ModelSonnet, TRUE,
             4000, 400, NULL, NULL, NULL, NULL, At(8, 12, 0)),
      \* a user turn in the main file of session s1
      Record(MainPath(P1, S1), S1, NULLSTR, "false", "user", NULLSTR, FALSE,
             NULL, NULL, NULL, NULL, NULL, NULL, At(8, 9, 0)) }

NextFiles ==
    \/ AppendRecord(FilesPool, MaxFileEvents)
    \/ Receive
    \/ RunByWeek
    \/ RunByHour
    \/ RunTopProjectsWeekly
    \/ RunSessionsList
    \/ RunDailyDetail
    \/ RunDrilldownProjects

SpecFiles == Init /\ [][NextFiles]_vars

\* Longest log explored for the session detail views
MaxDetailEvents == 3

\* Records of session s1 of project p1 in its three file layouts (the file
\* under s1/subagents/ carries the sessionId of another session), a second
\* turn of the main file at the instant of the first, and a file of the
\* same name in another project
DetailPool ==
    { Record(MainPath(P1, S1), S1, NULLSTR, "false", "assistant", ModelSonnet, TRUE,
             1000, 100, NULL, NULL, NULL, NULL, At(8, 10, 0)),
      Record(MainPath(P1, S1), S1, NULLSTR, "false", "user", NULLSTR, FALSE,
             NULL, NULL, NULL, NULL, NULL, NULL, At(8, 10, 0)),
      Record(LegacyAgentPath(P1, Agent7), S1, <<"7">>, "true", "assistant", ModelSonnet, TRUE,
             2000, 200, NULL, NULL, NULL, NULL, At(8, 10, 30)),
      Record(SubagentPath(P1, S1, AgentX), S2, <<"x">>, "true", "assistant", ModelSonnet, TRUE,
             3000, 300, NULL, NULL, NULL, NULL, At(8, 11, 0)),
      Record(MainPath(P2, S1), S1, NULLSTR, "false", "assistant", ModelSonnet, TRUE,
             4000, 400, NULL, NULL, NULL, NULL, At(8, 9, 0)) }

NextDetail ==
    \/ AppendRecord(DetailPool, MaxDetailEvents)
    \/ Receive
    \/ RunSessionsList
    \/ RunDrilldownEvents
    \/ RunSessionEvents

SpecDetail == Init /\ [][NextDetail]_vars

\* Longest log explored for the weekly views
MaxWeeklyEvents == 3

\* Records of 1,000,000 input tokens each: a model id holding both "sonnet"
\* and "opus", one holding "OPUS" in capitals, one of no family, one without
\* a model, a haiku turn on Sunday 2025-01-05T20:00Z (Monday 07:00 in
\* Melbourne) and a sonnet turn on Monday 2025-01-06T01:00Z
WeeklyPool ==
    { Record(MainPath(P1, S1), S1, NULLSTR, "false", "assistant", ModelSonnetOpus, TRUE,
             1000000, NULL, NULL, NULL, NULL, NULL, At(8, 10, 0)),
      Record(MainPath(P1, S1), S1, NULLSTR, "false", "assistant", ModelUpperOpus, TRUE,
             1000000, NULL, NULL, NULL, NULL, NULL, At(8, 10, 0)),
      Record(MainPath(P1, S1), S1, NULLSTR, "false", "assistant", ModelOther, TRUE,
             1000000, NULL, NULL, NULL, NULL, NULL, At(8, 10, 0)),
      Record(MainPath(P1, S1), S1, NULLSTR, "false", "assistant", NULLSTR, TRUE,
             1000000, NULL, NULL, NULL, NULL, NULL, At(8, 10, 0)),
      Record(MainPath(P2, S2), S2, NULLSTR, "false", "assistant", ModelHaiku, TRUE,
             1000000, NULL, NULL, NULL, NULL, NULL, At(6, 20, 0)),
      Record(MainPath(P2, S2), S2, NULLSTR, "false", "assistant", ModelSonnet, TRUE,
             1000000, NULL, NULL, NULL, NULL, NULL, At(7, 1, 0)) }

NextWeekly ==
    \/ AppendRecord(WeeklyPool, MaxWeeklyEvents)
    \/ Receive
    \/ RunByWeek
    \/ RunTopProjectsWeekly

SpecWeekly == Init /\ [][NextWeekly]_vars

\* Longest log explored for the schema timeline
MaxSchemaEvents == 3

\* Records of a file of 2025-01-07 (two versions on one day, and a record
\* without a timestamp), of a file last written on 2025-01-02 whose record
\* has a timestamp that does not parse, of a file with a subagent record of
\* 2025-01-01, and of a file that is not in file_mtimes
SchemaPool ==
    { SchemaRecord(MainPath(P1, S1), S1, NULLSTR, "assistant", TRUE, 1000,
                   At(8, 10, 0), V1, 9),
      SchemaRecord(MainPath(P1, S1), S1, NULLSTR, "user", FALSE, NULL,
                   At(8, 11, 0), V2, 9),
      SchemaRecord(MainPath(P1, S1), NULLSTR, NULLSTR, "summary", FALSE, NULL,
                   NULL, NULLSTR, 9),
      SchemaRecord(MainPath(P1, S3), S3, <<"7">>, "assistant", TRUE, NULL,
                   Malformed, V1, 3),
      SchemaRecord(MainPath(P2, S2), S2, <<"x">>, "assistant", TRUE, 500,
                   At(2, 23, 30), V2, 2),
      SchemaRecord(MainPath(P2, S3), S3, NULLSTR, "absent", FALSE, NULL,
                   NULL, V2, NULL) }

NextSchema ==
    \/ AppendRecord(SchemaPool, MaxSchemaEvents)
    \/ Receive
    \/ RunSchemaTimeline

SpecSchema == Init /\ [][NextSchema]_vars

\* The option values of the time range select (TIME_RANGE_OPTIONS)
TimeRangeOptions ==
    { <<"1">>, <<"3">>, <<"7">>, <<"1","4">>, <<"3","0">>, <<"9","0">>,
      <<"1","8","0">>, <<"0">> }

\* A project id with a character that the URL encodes
PSlash == <<"p","/","1">>

\* The option values of the project select: "All Projects" and project ids
ProjectOptions == {<<>>, P1, PSlash}

\* Paths of the sidebar
NavPaths == {"/", "/daily"}

\* The query strings of the URLs the application is opened with
InitialSearches ==
    { <<>>,
      <<"?","d","a","y","s","=","0">>,
      <<"?","d","a","y","s","=","a","b","c">>,
      <<"?","d","a","y","s","=","-","5">>,
      <<"?","p","r","o","j","e","c","t","=","p","%","2","F","1","&","d","a","y","s","=","9","0">>,
      <<"?","d","a","y","s","=","7","&","d","a","y","s","=","1","4","&","p","r","o","j","e","c","t","=">> }

\* The filters in force after setFilters(updates)
Applied(prev, updates) ==
    [days |-> IF "days" \notin DOMAIN updates THEN prev.days
              ELSE IF updates.days = JsNull THEN DEFAULT_DAYS ELSE updates.days,
     project |-> IF "project" \notin DOMAIN updates THEN prev.project
                 ELSE IF updates.project = <<>> THEN NULLSTR ELSE updates.project]

\* The application is opened at a URL (user events are taken between two
\* requests, as the appends to the logs are)
LoadUrl ==
    /\ q = NoQuery
    /\ \E path \in NavPaths, search \in InitialSearches :
        /\ location' = [pathname |-> path, search |-> search]
        /\ lastChange' = [op |-> "load", updates |-> <<>>, applied |-> Filters(search)]
    /\ UNCHANGED <<files, pricing, q, rows, api, drill>>

\* A call of setFilters(updates): the search parameters are replaced
CallSetFilters(updates) ==
    /\ q = NoQuery
    /\ location' = [location EXCEPT !.search = SetFilters(location.search, updates)]
    /\ lastChange' = [op |-> "setFilters", updates |-> updates,
                      applied |-> Applied(lastChange.applied, updates)]
    /\ UNCHANGED <<files, pricing, q, rows, api, drill>>

\* setFilters({ days: v }) for an option value v
SetDays == \E o \in TimeRangeOptions : CallSetFilters([days |-> ParseInt(o)])

\* onChange of the time range select
SelectDays ==
    \E o \in TimeRangeOptions :
        CallSetFilters([days |-> IF ParseInt(o) = 30 THEN JsNull ELSE ParseInt(o)])

\* onChange of the project select
SelectProject ==
    \E o \in ProjectOptions :
        CallSetFilters([project |-> IF o = <<>> THEN NULLSTR ELSE o])

\* The "Clear filters" button, shown when a filter is not at its default
ClearFilters ==
    /\ \/ Filters(location.search).days # 30
       \/ Filters(location.search).project # NULLSTR
    /\ CallSetFilters([days |-> JsNull, project |-> NULLSTR])

\* A link of the sidebar is followed
FollowNavLink ==
    /\ q = NoQuery
    /\ \E path \in NavPaths : location' = BuildNavTo(path, location.search)
    /\ lastChange' = [lastChange EXCEPT !.op = "navigate", !.updates = <<>>]
    /\ UNCHANGED <<files, pricing, q, rows, api, drill>>

\* A component calls navigateWithFilters(path)
CallNavigateWithFilters ==
    /\ q = NoQuery
    /\ \E path \in NavPaths : location' = NavigateWithFilters(path, location.search)
    /\ lastChange' = [lastChange EXCEPT !.op = "navigate", !.updates = <<>>]
    /\ UNCHANGED <<files, pricing, q, rows, api, drill>>

\* A page requests its data: useApi(`/usage/hourly${buildApiQuery()}`)
FetchPage ==
    /\ q = NoQuery
    /\ q' = [view |-> "fetch", endpoint |-> "/usage/hourly",
             query |-> BuildApiQuery(Filters(location.search)),
             filters |-> Filters(location.search)]
    /\ rows' = {}
    /\ UNCHANGED <<files, pricing, location, lastChange, api, drill>>

\* The layout requests the project list: useApi(projectsUrl)
FetchProjects ==
    /\ q = NoQuery
    /\ q' = [view |-> "fetch", endpoint |-> "/projects",
             query |-> ProjectsUrl(Filters(location.search)),
             filters |-> Filters(location.search)]
    /\ rows' = {}
    /\ UNCHANGED <<files, pricing, location, lastChange, api, drill>>

NextFilters ==
    \/ LoadUrl
    \/ SetDays
    \/ SelectDays
    \/ SelectProject
    \/ ClearFilters
    \/ FollowNavLink
    \/ CallNavigateWithFilters
    \/ FetchPage
    \/ FetchProjects
    \/ Receive

SpecFilters == Init /\ [][NextFilters]_vars

(***************************************************************************)
(* Properties                                                              *)
(***************************************************************************)

\* The sum of F over the records of the log whose index is in S
SumOver(S, F(_)) == SumSeq([i \in 1..Len(files) |-> IF i \in S THEN F(files[i]) ELSE 0])

\* The records that pass the WHERE clause of the usage views for the request
Surviving == {i \in 1..Len(files) : UsageWhere(files[i], q.days, q.project)}

\* No pricing row matches the record in a join on model_family / on model_id
UnpricedByFamily(e) ==
    \A k \in 1..Len(pricing) : pricing[k].model_family # ModelFamily(e.model)
UnpricedByModelId(e) ==
    \A k \in 1..Len(pricing) : e.model = NULLSTR \/ pricing[k].model_id # e.model

\* Group keys of a record and of a result row, per view
WeekOf(e) == DateTruncWeek(TryCastTimestamp(e.timestamp))
LocalOf(e) == AtMelbourne(TryCastTimestamp(e.timestamp))
ByWeekEventKey(e) == <<ProjectId(e.path), e.model, WeekOf(e)>>
ByWeekRowKey(r) == <<r.project_id, r.model_id, r.time_bucket>>
ByHourEventKey(e) == <<ProjectId(e.path), DateTruncDay(LocalOf(e)), ExtractHour(LocalOf(e))>>
ByHourRowKey(r) == <<r.project_id, r.time_bucket, r.hour_of_day>>
SessionsEventKey(e) == <<ProjectId(e.path), FileStem(e.path), e.model>>
SessionsRowKey(r) == <<r.project_id, r.session_id, r.model_id>>
TopEventKey(e) == <<ProjectId(e.path), WeekOf(e)>>
TopRowKey(r) == <<r.project_id, r.time_bucket>>

\* R is the response over the whole log and R0 the response of the same
\* request over the log without the unpriced records U.  Every record of U
\* has its row in R, and each row of R counts the records of U that belong
\* to it once, adds their tokens, and has the cost fields of R0.
LeftJoinComplete(R, R0, U, RowKey(_), EventKey(_), Cnt(_), InTok(_), OutTok(_), Costs(_)) ==
    /\ \A i \in U : \E r \in R : RowKey(r) = EventKey(files[i])
    /\ \A r \in R :
         LET mine == {i \in U : EventKey(files[i]) = RowKey(r)}
             base == {r0 \in R0 : RowKey(r0) = RowKey(r)}
             inTok == SumOver(mine, LAMBDA e : Coalesce0(e.input_tokens))
             outTok == SumOver(mine, LAMBDA e : Coalesce0(e.output_tokens))
         IN  IF base = {}
             THEN /\ Cnt(r) = Cardinality(mine)
                  /\ InTok(r) = inTok
                  /\ OutTok(r) = outTok
                  /\ \A k \in DOMAIN Costs(r) : Costs(r)[k] = 0
             ELSE LET r0 == CHOOSE x \in base : TRUE
                  IN  /\ Cardinality(base) = 1
                      /\ Cnt(r) = Cnt(r0) + Cardinality(mine)
                      /\ InTok(r) = InTok(r0) + inTok
                      /\ OutTok(r) = OutTok(r0) + outTok
                      /\ \A k \in DOMAIN Costs(r) :
                             Coalesce0(Costs(r)[k]) = Coalesce0(Costs(r0)[k])

WithoutUnpricedByFamily == SelectSeq(files, LAMBDA e : ~UnpricedByFamily(e))
WithoutUnpricedByModelId == SelectSeq(files, LAMBDA e : ~UnpricedByModelId(e))

ByWeekCosts(r) ==
    <<r.total_cost_usd, r.cost_base_input, r.cost_cache_5m_writes,
      r.cost_cache_1h_writes, r.cost_cache_reads, r.cost_output>>
SessionsCosts(r) == ByWeekCosts(r)
SummaryCosts(r) ==
    <<r.grand_total_cost_usd, r.total_cost_base_input, r.total_cost_cache_writes,
      r.total_cost_cache_reads, r.total_cost_output>>

\* C1 (left-join completeness): in the weekly, hourly, summary, top-projects
\* and per-session usage responses, a record that has a usage block and
\* passes the filters but has no matching pricing row is never dropped: its
\* group has a row, it adds exactly 1 to event_count and its tokens to the
\* token sums of that row, and it adds 0 to every cost field.
C1_LeftJoinCompleteness ==
    /\ q.view = "by_week" =>
         LeftJoinComplete(rows,
             ByWeek(WithoutUnpricedByFamily, pricing, q.days, q.project),
             {i \in Surviving : UnpricedByFamily(files[i])},
             ByWeekRowKey, ByWeekEventKey,
             LAMBDA r : r.event_count, LAMBDA r : r.total_input_tokens,
             LAMBDA r : r.total_output_tokens, ByWeekCosts)
    /\ q.view = "by_hour" =>
         LeftJoinComplete(rows,
             ByHour(WithoutUnpricedByFamily, pricing, q.days, q.project),
             {i \in Surviving : UnpricedByFamily(files[i])},
             ByHourRowKey, ByHourEventKey,
             LAMBDA r : r.event_count, LAMBDA r : r.input_tokens,
             LAMBDA r : r.output_tokens, LAMBDA r : <<r.total_cost_usd>>)
    /\ q.view = "summary" =>
         LeftJoinComplete(rows,
             Summary(WithoutUnpricedByFamily, pricing, q.days, q.project),
             {i \in Surviving : UnpricedByFamily(files[i])},
             LAMBDA r : <<>>, LAMBDA e : <<>>,
             LAMBDA r : r.total_events, LAMBDA r : r.total_input_tokens,
             LAMBDA r : r.total_output_tokens, SummaryCosts)
    /\ q.view = "sessions" =>
         LeftJoinComplete(rows,
             Sessions(WithoutUnpricedByModelId, pricing, q.days, q.project),
             {i \in Surviving : UnpricedByModelId(files[i])},
             SessionsRowKey, SessionsEventKey,
             LAMBDA r : r.event_count, LAMBDA r : r.total_input_tokens,
             LAMBDA r : r.total_output_tokens, SessionsCosts)
    /\ q.view = "top_projects_weekly" =>
         LET tp == {r.project_id : r \in rows}
             all == {ProjectId(files[i].path) : i \in Surviving}
         IN  /\ Cardinality(all) <= TopLimit => tp = all
             /\ LeftJoinComplete(rows,
                    TopProjectsWeekly(WithoutUnpricedByFamily, pricing, q.days, tp),
                    {i \in Surviving : /\ UnpricedByFamily(files[i])
                                       /\ ProjectId(files[i].path) \in tp},
                    TopRowKey, TopEventKey,
                    LAMBDA r : r.event_count, LAMBDA r : r.input_tokens,
                    LAMBDA r : r.output_tokens, LAMBDA r : <<r.cost_usd>>)

\* C1 witness: a weekly response over a log in which a record without a
\* pricing row shares its week and project with nothing else, so that its
\* row exists only because the join keeps it
C1_Witness ==
    /\ q.view = "by_week"
    /\ \E i \in Surviving :
         /\ UnpricedByFamily(files[i])
         /\ \E r \in rows :
              /\ ByWeekRowKey(r) = ByWeekEventKey(files[i])
              /\ r.event_count = 1
              /\ r.total_input_tokens = 1000
              /\ r.total_cost_usd = 0
    /\ \E i \in Surviving : ~UnpricedByFamily(files[i])

\* Every family has at most one pricing row: the family has a price vector
FamilyIsKey ==
    \A a, b \in 1..Len(pricing) :
        pricing[a].model_family = pricing[b].model_family => a = b

\* The cost of one record at the price vector of its family (0 if none)
RefCost(e) ==
    LET m == SelectSeq(pricing, LAMBDA p : p.model_family = ModelFamily(e.model))
    IN  IF m = <<>> THEN 0
        ELSE Coalesce0(e.input_tokens) * m[1].base_input_price
             + Coalesce0(e.ephemeral_5m_input_tokens) * m[1].cache_5m_write_price
             + Coalesce0(e.ephemeral_1h_input_tokens) * m[1].cache_1h_write_price
             + Coalesce0(e.cache_read_input_tokens) * m[1].cache_read_price
             + Coalesce0(e.output_tokens) * m[1].output_price

\* The 10.50 USD of the end-to-end scenario, in units of 0.25e-6 USD
ScenarioCost == 1000000 * 12 + 500000 * 60

\* C2 (cost attribution): when every family has one price vector, the
\* unrounded total cost of every weekly row (project, model, week) is the sum
\* over the records of the group of the five token counts times the prices
\* of the record's family; the two sonnet records of 1,000,000 input and
\* 500,000 output tokens give 10.50 USD, event_count 2 and session_count 1.
C2_CostAttribution ==
    (q.view = "by_week" /\ FamilyIsKey) =>
        \A r \in rows :
            LET members == {i \in Surviving : ByWeekEventKey(files[i]) = ByWeekRowKey(r)}
            IN  /\ r.total_cost_raw = SumOver(members, RefCost)
                /\ r.total_cost_usd = Round4(SumOver(members, RefCost))
                /\ (\E a, b \in members :
                       /\ a # b
                       /\ members = {a, b}
                       /\ files[a].model = ModelSonnet /\ files[b].model = ModelSonnet
                       /\ files[a].path = files[b].path
                       /\ files[a].input_tokens = 1000000 /\ files[a].output_tokens = NULL
                       /\ files[b].input_tokens = NULL /\ files[b].output_tokens = 500000)
                   => /\ r.total_cost_raw = ScenarioCost
                      /\ r.total_cost_usd = 105000
                      /\ r.event_count = 2
                      /\ r.session_count = 1

\* C2 witness: the weekly row of the end-to-end scenario
C2_Witness ==
    /\ q.view = "by_week"
    /\ FamilyIsKey
    /\ \E r \in rows :
         /\ r.model_id = ModelSonnet
         /\ r.total_cost_usd = 105000
         /\ r.event_count = 2
         /\ r.session_count = 1
         /\ r.total_input_tokens = 1000000
         /\ r.total_output_tokens = 500000

\* The sum of the five displayed component costs of a usage row
SumOfComponents(r) ==
    r.cost_base_input + r.cost_cache_5m_writes + r.cost_cache_1h_writes
    + r.cost_cache_reads + r.cost_output

AbsDiff(a, b) == IF a >= b THEN a - b ELSE b - a

\* C6 as the specification states it: in every weekly row and every
\* per-session usage row, total_cost_usd and the sum of the five displayed
\* component costs agree to 4 decimal places (they differ by at most 0.0001).
C6_AdditivityTo4Decimals ==
    q.view \in {"by_week", "sessions"} =>
        \A r \in rows : AbsDiff(r.total_cost_usd, SumOfComponents(r)) <= 1

\* C6 (cost additivity, amended): in every weekly row and every per-session
\* usage row, total_cost_usd and the sum of the five displayed component
\* costs differ by at most 0.0002: each of the six values is rounded to 4
\* decimal places on its own, and the total is the rounded sum of the
\* unrounded components.
C6_CostAdditivity ==
    q.view \in {"by_week", "sessions"} =>
        \A r \in rows :
            /\ AbsDiff(r.total_cost_usd, SumOfComponents(r)) <= 2
            /\ r.total_cost_usd = Round4(r.total_cost_raw)

\* C6 witness: a weekly row with a positive total whose five components all
\* round to 0.0000, and a per-session usage row of the same kind
C6_Witness ==
    /\ q.view \in {"by_week", "sessions"}
    /\ \E r \in rows :
         /\ r.total_cost_usd = 2
         /\ SumOfComponents(r) = 0
         /\ r.total_input_tokens = 13

\* C7 as the specification states it: when every family has one price
\* vector, the grand total cost of the summary row is the sum over the
\* records that pass the filters of all five cost components, the one-hour
\* cache write tokens times the one-hour cache write price included.
C7_SummaryFiveComponents ==
    (q.view = "summary" /\ FamilyIsKey) =>
        \A r \in rows :
            /\ Coalesce0(r.grand_total_raw) = SumOver(Surviving, RefCost)
            /\ Coalesce0(r.grand_total_cost_usd) = Round2(SumOver(Surviving, RefCost))

\* The token fields of a record with a usage block, missing ones read as 0
ZeroFill(e) ==
    IF ~e.usage THEN e
    ELSE [e EXCEPT !.input_tokens = Coalesce0(@),
                   !.output_tokens = Coalesce0(@),
                   !.cache_creation_input_tokens = Coalesce0(@),
                   !.cache_read_input_tokens = Coalesce0(@),
                   !.ephemeral_5m_input_tokens = Coalesce0(@),
                   !.ephemeral_1h_input_tokens = Coalesce0(@)]

\* The same for the sessions list, where a record takes part in the token
\* and cost sums only if it has input_tokens or output_tokens
ZeroFillUsageEvent(e) ==
    IF e.input_tokens = NULL /\ e.output_tokens = NULL THEN e ELSE ZeroFill(e)

ZeroFilled == [i \in 1..Len(files) |-> ZeroFill(files[i])]
ZeroFilledUsageEvents == [i \in 1..Len(files) |-> ZeroFillUsageEvent(files[i])]

\* A row without the percentage column (which is not a token or cost sum)
WithoutPct(r) == [r EXCEPT !.subagent_token_pct = 0]

C9_TimezoneFlag ==
    q.view = "daily_detail" =>
        /\ \A r \in rows :
             /\ r.timezone_status \in {"TIMEZONE_MISMATCH", "ALIGNED"}
             /\ (r.timezone_status = "TIMEZONE_MISMATCH") <=> (r.date_local # r.date_utc)
        /\ \A i \in 1..Len(files) :
             (files[i].usage /\ ProjectId(files[i].path) = q.project) =>
                 /\ \E r \in rows :
                      /\ r.model_id = files[i].model
                      /\ r.date_utc = DateTruncDay(TryCastTimestamp(files[i].timestamp))
                 /\ files[i].timestamp = At(2, 23, 30) =>
                      \E r \in rows :
                          /\ r.model_id = files[i].model
                          /\ r.date_utc = 2
                          /\ r.date_local = 3
                          /\ r.timezone_status = "TIMEZONE_MISMATCH"

\* C9 witness: the daily rows of a project with a record at
\* 2025-01-01T23:30Z and a record whose two dates agree
C9_Witness ==
    /\ q.view = "daily_detail"
    /\ \E r \in rows :
         /\ r.date_utc = 2 /\ r.date_local = 3
         /\ r.timezone_status = "TIMEZONE_MISMATCH"
    /\ \E r \in rows :
         /\ r.date_utc = 8 /\ r.date_local = 8
         /\ r.timezone_status = "ALIGNED"

\* C10 as the specification states it: a record whose timestamp is missing
\* or does not parse is in no row of a time-bucketed response (weekly,
\* top-projects weekly, hourly, daily), with or without a days filter, and
\* without a days filter it is counted in the summary row and in the row of
\* its project.
C10_NoTimestampNoBucket ==
    /\ q.view \in {"by_week", "by_hour", "top_projects_weekly"} =>
         \A r \in rows : r.time_bucket # NULL
    /\ q.view = "daily_detail" =>
         \A r \in rows : r.date_utc # NULL /\ r.date_local # NULL
    /\ (q.view = "summary" /\ q.days = 0 /\ FamilyIsKey) =>
         \A r \in rows : r.total_events = Cardinality(Surviving)
    /\ q.view = "drilldown_projects" =>
         \A r \in rows :
             r.event_count =
                 Cardinality({i \in 1..Len(files) :
                     files[i].usage /\ ProjectId(files[i].path) = r.project_id})

\* The sessions, normalized over the three file layouts, of a set of records
NormalizedSessions(S) == {SessionId(files[i]) : i \in S} \ {NULLSTR}

\* The records with a usage block of the project asked for (no days filter)
OfProject == {i \in 1..Len(files) :
                 files[i].usage /\ ProjectId(files[i].path) = q.project}

DailyDetailEventKey(e) ==
    <<ProjectId(e.path), DateTruncDay(LocalOf(e)),
      DateTruncDay(TryCastTimestamp(e.timestamp)), e.model>>
DailyDetailRowKey(r) == <<r.project_id, r.date_local, r.date_utc, r.model_id>>

\* C3 as the specification states it: in every aggregate row, session_count
\* is the number of distinct normalized sessions among the records of the
\* row, so that the records of <s>.jsonl, of an agent-<id>.jsonl file with
\* sessionId s and of <s>/subagents/<file>.jsonl count as the one session s;
\* and the sessions list has no session named after a subagent file.
C3_SessionCollapsing ==
    /\ q.view = "by_week" =>
         \A r \in rows :
             r.session_count = Cardinality(NormalizedSessions(
                 {i \in Surviving : ByWeekEventKey(files[i]) = ByWeekRowKey(r)}))
    /\ q.view = "by_hour" =>
         \A r \in rows :
             r.session_count = Cardinality(NormalizedSessions(
                 {i \in Surviving : ByHourEventKey(files[i]) = ByHourRowKey(r)}))
    /\ q.view = "top_projects_weekly" =>
         \A r \in rows :
             r.session_count = Cardinality(NormalizedSessions(
                 {i \in Surviving : TopEventKey(files[i]) = TopRowKey(r)}))
    /\ q.view = "daily_detail" =>
         \A r \in rows :
             r.session_count = Cardinality(NormalizedSessions(
                 {i \in OfProject : DailyDetailEventKey(files[i]) = DailyDetailRowKey(r)}))
    /\ q.view = "drilldown_projects" =>
         \A r \in rows :
             r.session_count = Cardinality(NormalizedSessions(
                 {i \in 1..Len(files) :
                     files[i].usage /\ ProjectId(files[i].path) = r.project_id}))
    /\ q.view = "sessions_list" =>
         \A r \in rows : ~LikePrefix(r.session_id, StrAgentDash)

\* The records the top-projects view reads (it has no project filter)
TopSurviving == {i \in 1..Len(files) :
                    files[i].usage /\ DaysFilter(files[i].timestamp, q.days)}

\* The total cost of a project over the filtered window
ProjectTotal(p) ==
    SumOver({i \in TopSurviving : ProjectId(files[i].path) = p}, RefCost)

\* One USD in units of 0.25e-6 USD
Usd == 4 * 1000 * 1000

\* C4 (top-3 membership): when every family has one price vector, the
\* top-projects response has rows only for 3 projects (all of them when there
\* are fewer) of highest total cost over the filtered window: fewer than 3
\* projects cost strictly more than any project that has a row.  With totals
\* A = 100, B = 90, C = 80 and D = 79 the rows are those of A, B and C.
C4_TopThreeMembership ==
    (q.view = "top_projects_weekly" /\ FamilyIsKey) =>
        LET all == {ProjectId(files[i].path) : i \in TopSurviving}
            sel == {r.project_id : r \in rows}
        IN  /\ sel \subseteq all
            /\ Cardinality(sel) = (IF Cardinality(all) < 3 THEN Cardinality(all) ELSE 3)
            /\ \A p \in sel :
                   Cardinality({x \in all : ProjectTotal(x) > ProjectTotal(p)}) < 3
            /\ (/\ all = {PA, PB, PC, PD}
                /\ ProjectTotal(PA) = 100 * Usd
                /\ ProjectTotal(PB) = 90 * Usd
                /\ ProjectTotal(PC) = 80 * Usd
                /\ ProjectTotal(PD) = 79 * Usd)
               => sel = {PA, PB, PC}

\* C4 witness: the response over four projects that cost 100, 90, 80 and 79
C4_Witness ==
    /\ q.view = "top_projects_weekly"
    /\ FamilyIsKey
    /\ ProjectTotal(PA) = 100 * Usd
    /\ ProjectTotal(PB) = 90 * Usd
    /\ ProjectTotal(PC) = 80 * Usd
    /\ ProjectTotal(PD) = 79 * Usd
    /\ {r.project_id : r \in rows} = {PA, PB, PC}

\* The weeks of the filtered window in which any project has a record
WindowWeeks == {WeekOf(files[i]) : i \in TopSurviving} \ {NULL}

\* The number of rows of project p for week w
WeekRows(p, w) == Cardinality({r \in rows : r.project_id = p /\ r.time_bucket = w})

RefSession(e) ==
    LET n == Len(e.path)
        marks == {i \in 3..(n - 1) : e.path[i] = StrSubagents}
    IN  IF marks # {}
        THEN e.path[(CHOOSE i \in marks : \A k \in marks : i <= k) - 1]
        ELSE IF Len(e.path[n]) >= 6 /\ SubSeq(e.path[n], 1, 6) = StrAgentDash
             THEN e.sessionId
        ELSE e.path[n]

\* The records the sessions list reads for the request
ListSurviving == {i \in 1..Len(files) : AllEventsWhere(files[i], q.days, q.project)}

\* C11 (session-id resolution): in the sessions list a record belongs to the
\* session named by (a) the directory above subagents/ when its path has
\* one, (b) otherwise its own sessionId when its file name begins with
\* agent-, (c) otherwise its file name: every row counts exactly the records
\* that resolve to its session, and a record of
\* projects/p1/s1/subagents/agent-x.jsonl counts for s1 whatever its
\* sessionId is.
C11_SessionIdResolution ==
    q.view = "sessions_list" =>
        /\ \A r \in rows :
             r.event_count =
                 Cardinality({i \in ListSurviving :
                     /\ ProjectId(files[i].path) = r.project_id
                     /\ RefSession(files[i]) = r.session_id})
        /\ \A i \in ListSurviving :
             (\E k \in ListSurviving :
                 files[k].path = MainPath(ProjectId(files[i].path), RefSession(files[i])))
             => \E r \in rows :
                    /\ r.project_id = ProjectId(files[i].path)
                    /\ r.session_id = RefSession(files[i])
        /\ \A i \in ListSurviving :
             files[i].path = SubagentPath(P1, S1, AgentX) =>
                 \A r \in rows :
                     (r.project_id = P1 /\ r.session_id = S1) => r.event_count >= 1

\* C11 witness: the row of session s1 counts a record of its main file, one
\* of agent-7.jsonl with sessionId s1 and one of s1/subagents/agent-x.jsonl
\* with sessionId s2
C11_Witness ==
    /\ q.view = "sessions_list"
    /\ \E a, b, c \in ListSurviving :
         /\ files[a].path = MainPath(P1, S1)
         /\ files[b].path = LegacyAgentPath(P1, Agent7) /\ files[b].sessionId = S1
         /\ files[c].path = SubagentPath(P1, S1, AgentX) /\ files[c].sessionId = S2
    /\ \E r \in rows :
         r.project_id = P1 /\ r.session_id = S1 /\ r.event_count = 3

(***************************************************************************)
(* Pricing resolution                                                      *)
(***************************************************************************)

\* The family each model id of the weekly logs resolves to, as the ordered,
\* case-sensitive substring tests give it; and the input price of the
\* family in the one-row-per-family table (0 where it has no row)
ExpectedFamily(model) ==
    CASE model = ModelSonnetOpus -> StrOpus
      [] model = ModelSonnet -> StrSonnet
      [] model = ModelHaiku -> StrHaiku
      [] OTHER -> StrUnknown

ExpectedInputPrice(model) ==
    CASE ExpectedFamily(model) = StrOpus -> 60
      [] ExpectedFamily(model) = StrSonnet -> 12
      [] ExpectedFamily(model) = StrHaiku -> 4
      [] OTHER -> 0

\* C12 (pricing resolution): the family of a model id is the first of
\* opus, sonnet, haiku that occurs in it as a case-sensitive substring, so a
\* weekly row of an id holding both "sonnet" and "opus" is charged at the
\* opus prices and "Claude-OPUS" matches nothing; a model that matches no
\* family has no price row and every cost field of its rows is 0.
C12_PricingResolution ==
    (q.view = "by_week" /\ pricing = PricingByFamily) =>
        \A r \in rows :
            /\ r.total_cost_raw = r.total_input_tokens * ExpectedInputPrice(r.model_id)
            /\ r.cost_base_input = Round4(r.total_cost_raw)
            /\ ExpectedFamily(r.model_id) = StrUnknown =>
                   /\ r.total_cost_usd = 0
                   /\ r.cost_base_input = 0
                   /\ r.cost_cache_5m_writes = 0
                   /\ r.cost_cache_1h_writes = 0
                   /\ r.cost_cache_reads = 0
                   /\ r.cost_output = 0

\* C12 witness: a weekly response with a row of the id holding both names
\* charged 15 USD per million tokens, and a row of "Claude-OPUS" at no cost
C12_Witness ==
    /\ q.view = "by_week"
    /\ pricing = PricingByFamily
    /\ \E r \in rows :
         /\ r.model_id = ModelSonnetOpus
         /\ r.event_count = 1
         /\ r.total_cost_usd = 150000
    /\ \E r \in rows :
         /\ r.model_id = ModelUpperOpus
         /\ r.total_input_tokens > 0
         /\ r.total_cost_usd = 0

(***************************************************************************)
(* Weekly bucketing                                                        *)
(***************************************************************************)

\* The Monday of the ISO week of the calendar day of instant t in Melbourne
MelbourneWeek(t) == 7 * ((AtMelbourne(t) \div 1440) \div 7)

\* C13 (weekly bucketing): the time_bucket of every weekly row is a Monday,
\* and every record with a usage block and a timestamp is counted in a row of
\* its project whose time_bucket is the Monday of the ISO week of the
\* record's calendar day in Australia/Melbourne: a record of Sunday 20:00 UTC
\* is in the week that starts on the Monday that has begun in Melbourne.
C13_WeeklyBucketInMelbourne ==
    q.view \in {"by_week", "top_projects_weekly"} =>
        /\ \A r \in rows : r.time_bucket # NULL => r.time_bucket % 7 = 0
        /\ \A i \in Surviving :
               files[i].timestamp >= 0 =>
                   \E r \in rows :
                       /\ r.project_id = ProjectId(files[i].path)
                       /\ r.time_bucket = MelbourneWeek(files[i].timestamp)

(***************************************************************************)
(* Sequence numbers                                                        *)
(***************************************************************************)

\* The numbers are exactly 1..n, and a later timestamp has a larger number
RanksByTimestamp(R, Num(_), Ts(_)) ==
    /\ {Num(r) : r \in R} = 1..Cardinality(R)
    /\ \A a, b \in R : (Ts(a) # NULL /\ Ts(b) # NULL /\ Ts(a) < Ts(b)) => Num(a) < Num(b)

\* C14 (sequence numbers): in the events returned for one session, by the
\* session detail and by the drill-down, the sequence numbers of the events
\* of one source file are exactly 1..n in ascending timestamp order, whatever
\* the files of other sessions and other projects hold.
C14_SequenceNumbers ==
    /\ q.view = "session_events" =>
         \A f \in {r.filepath : r \in rows} :
             RanksByTimestamp({r \in rows : r.filepath = f},
                              LAMBDA r : r.line_number, LAMBDA r : r.timestamp)
    /\ q.view = "drilldown_events" =>
         RanksByTimestamp(rows, LAMBDA r : r.event_seq, LAMBDA r : r.timestamp_utc)

(***************************************************************************)
(* Subagent file detection                                                 *)
(***************************************************************************)

\* The path is of a subagent file: it lies under a subagents/ directory, or
\* its file name begins with agent-
SubagentPathForm(path) ==
    \/ \E i \in 2..(Len(path) - 1) : path[i] = StrSubagents
    \/ /\ Len(path[Len(path)]) >= 6
       /\ SubSeq(path[Len(path)], 1, 6) = StrAgentDash

\* C15 (subagent file detection): every event the session detail returns is
\* flagged as coming from a subagent file exactly when its path lies under
\* a subagents/ directory or its file name begins with agent-, as in the
\* sessions list; an event of a legacy agent-*.jsonl file is flagged.
C15_SubagentFileFlag ==
    q.view = "session_events" =>
        \A r \in rows : r.is_subagent_file = SubagentPathForm(r.filepath)

(***************************************************************************)
(* Schema timeline                                                         *)
(***************************************************************************)

\* The day of an observation: the day of the record's timestamp when it
\* parses, else the modification day of its file
ObservationDay(e) == IF e.timestamp >= 0 THEN e.timestamp \div 1440 ELSE e.mtime_date

\* The records of the log that are observations of path p on day d in the
\* query at hand
Observations(p, d) ==
    {i \in 1..Len(files) :
        /\ ProjectFilter(files[i].path, q.project)
        /\ HasPath(files[i], p)
        /\ ObservationDay(files[i]) = d}

\* C16 (schema drift fallback flag): a row of (path, day) counts the records
\* with the path whose own timestamp day, or else whose file's modification
\* day, is that day, and its has_record_timestamp is true only if one of them
\* has a timestamp that parses: a day reached only through the modification
\* time, the timestamp being absent or malformed, is flagged false.
C16_FallbackFlag ==
    q.view = "schema_timeline" =>
        \A n \in 1..Len(rows) :
            /\ rows[n].event_count =
                   Cardinality(Observations(rows[n].json_path, rows[n].event_date))
            /\ rows[n].has_record_timestamp =>
                   \E i \in Observations(rows[n].json_path, rows[n].event_date) :
                       files[i].timestamp >= 0

\* The days on which path p is observed in the query at hand
ObservedDays(p) ==
    {d \in {ObservationDay(files[i]) : i \in 1..Len(files)} \ {NULL} :
        /\ Observations(p, d) # {}
        /\ (q.days = 0 \/ d >= DateTruncDay(Now) - q.days)}

\* C17 (schema first-seen): every row of a path carries as first_seen the
\* earliest day on which the path is observed in the query, so first_seen
\* is at most the row's event_date; the rows come ordered by first_seen, then
\* by json_path, then by event_date, and no two rows have the same path and
\* day.
C17_FirstSeen ==
    q.view = "schema_timeline" =>
        /\ \A n \in 1..Len(rows) :
               /\ rows[n].first_seen \in ObservedDays(rows[n].json_path)
               /\ \A d \in ObservedDays(rows[n].json_path) : rows[n].first_seen <= d
               /\ rows[n].first_seen <= rows[n].event_date
        /\ \A n, m \in 1..Len(rows) :
               n < m =>
                   \/ rows[n].first_seen < rows[m].first_seen
                   \/ /\ rows[n].first_seen = rows[m].first_seen
                      /\ PathRank(rows[n].json_path) < PathRank(rows[m].json_path)
                   \/ /\ rows[n].first_seen = rows[m].first_seen
                      /\ rows[n].json_path = rows[m].json_path
                      /\ rows[n].event_date < rows[m].event_date

\* C17 witness: a response in which a path first seen earlier precedes a
\* path that sorts before it by name, and a path has a row of a day after
\* its first
C17_Witness ==
    /\ q.view = "schema_timeline"
    /\ \E n, m \in 1..Len(rows) :
         /\ n < m
         /\ rows[n].first_seen < rows[m].first_seen
         /\ PathRank(rows[n].json_path) > PathRank(rows[m].json_path)
    /\ \E n \in 1..Len(rows) : rows[n].first_seen < rows[n].event_date

(***************************************************************************)
(* Filters in the URL                                                      *)
(***************************************************************************)

StrDaysEq == <<"d","a","y","s","=">>
StrProjectEq == <<"p","r","o","j","e","c","t","=">>

\* The text of a time range option
OptionText(v) ==
    CASE v = 1 -> <<"1">>
      [] v = 3 -> <<"3">>
      [] v = 7 -> <<"7">>
      [] v = 14 -> <<"1","4">>
      [] v = 90 -> <<"9","0">>
      [] v = 180 -> <<"1","8","0">>
      [] v = 0 -> <<"0">>

\* The query string of a request for the filters with no days filter at all
QueryWithoutDays(project) ==
    IF project = NULLSTR THEN <<>>
    ELSE <<"?">> \o StrProjectEq \o EncodeStr(project)

\* C18 (days sentinel): a request built for days = 0 ("All time") has the
\* query string of the request built for no days filter; the query string of
\* a data request and of the project list carries a days parameter only for
\* days > 0, and never days=0.
C18_DaysSentinel ==
    q.view = "fetch" =>
        /\ q.filters.days = 0 =>
               q.query = (IF q.endpoint = "/projects" THEN <<>>
                          ELSE QueryWithoutDays(q.filters.project))
        /\ Like(q.query, StrDaysEq) <=> (q.filters.days # NaN /\ q.filters.days > 0)
        /\ ~Like(q.query, StrDaysEq \o <<"0">>)
        /\ ParamsGet(URLSearchParams(q.query), StrDays) # NULLSTR =>
               ParseInt(ParamsGet(URLSearchParams(q.query), StrDays)) > 0

\* C18 witness: a data request and a project list request while days = 0
\* and a project are in the URL
C18_Witness ==
    /\ q.view = "fetch"
    /\ q.endpoint = "/usage/hourly"
    /\ Like(location.search, StrDaysEq \o <<"0">>)
    /\ q.filters.days = 0
    /\ q.filters.project = PSlash
    /\ q.query = <<"?","p","r","o","j","e","c","t","=","p","%","2","F","1">>

\* C19 (filter/URL round trip): after setFilters({days: v}) for an option v
\* the URL has no days parameter when v = 30 and days=v otherwise, and it
\* parses to days = v; after setFilters({project: p}) an empty or null p
\* leaves no project parameter and parses to null, and any other p is stored
\* as project=p and parses back to p.
C19_RoundTrip ==
    lastChange.op = "setFilters" =>
        /\ "days" \in DOMAIN lastChange.updates =>
               IF lastChange.updates.days \in {30, JsNull}
               THEN /\ ~Like(location.search, StrDaysEq)
                    /\ Filters(location.search).days = 30
               ELSE /\ Like(location.search, StrDaysEq \o OptionText(lastChange.updates.days))
                    /\ ParamsGet(URLSearchParams(location.search), StrDays)
                           = OptionText(lastChange.updates.days)
                    /\ Filters(location.search).days = lastChange.updates.days
        /\ "project" \in DOMAIN lastChange.updates =>
               IF lastChange.updates.project \in {NULLSTR, <<>>}
               THEN /\ ~Like(location.search, StrProjectEq)
                    /\ Filters(location.search).project = NULLSTR
               ELSE /\ Like(location.search,
                            StrProjectEq \o EncodeStr(lastChange.updates.project))
                    /\ ParamsGet(URLSearchParams(location.search), StrProject)
                           = lastChange.updates.project
                    /\ Filters(location.search).project = lastChange.updates.project

\* C19 witness: the URL after setFilters({days: 0}) with days=0, and after
\* setFilters({days: 30}) over a URL that had a days parameter
C19_Witness ==
    /\ lastChange.op = "setFilters"
    /\ \/ /\ lastChange.updates = [days |-> 0]
          /\ Like(location.search, StrProjectEq \o <<"p","%","2","F","1">>)
          /\ Like(location.search, <<"d","a","y","s","=","0">>)
       \/ /\ lastChange.updates = [days |-> 30]
          /\ location.search = <<>>

\* C20 (filter persistence): after any sequence of filter changes and
\* navigations, the days and project parsed from the URL are the values
\* most recently set (those of the URL the application was opened with, for
\* a filter not set since): a navigation changes the path only.
C20_FilterPersistence ==
    Filters(location.search) = lastChange.applied

\* C20 witness: on /daily after a navigation, with days = 7 and a project
\* set before it
C20_Witness ==
    /\ lastChange.op = "navigate"
    /\ location.pathname = "/daily"
    /\ lastChange.applied = [days |-> 7, project |-> PSlash]
    /\ Filters(location.search) = [days |-> 7, project |-> PSlash]

(***************************************************************************)
(* The pricing join and the event counts                                   *)
(***************************************************************************)

\* C24 (the pricing join never multiplies events): in the views joined on
\* model_family, whatever the pricing table holds, also several rows of one
\* family, every surviving record is counted once in the event_count of its
\* row and its input tokens are added once.
C24_JoinNeverMultiplies ==
    /\ q.view = "by_week" =>
         \A r \in rows :
             LET mine == {i \in Surviving : ByWeekEventKey(files[i]) = ByWeekRowKey(r)}
             IN  /\ r.event_count = Cardinality(mine)
                 /\ r.total_input_tokens =
                        SumOver(mine, LAMBDA e : Coalesce0(e.input_tokens))
    /\ q.view = "by_hour" =>
         \A r \in rows :
             r.event_count =
                 Cardinality({i \in Surviving : ByHourEventKey(files[i]) = ByHourRowKey(r)})
    /\ q.view = "top_projects_weekly" =>
         \A r \in rows :
             r.event_count =
                 Cardinality({i \in Surviving : TopEventKey(files[i]) = TopRowKey(r)})
    /\ q.view = "summary" =>
         \A r \in rows : r.total_events = Cardinality(Surviving)

(***************************************************************************)
(* Records without a usage block                                           *)
(***************************************************************************)

\* The log without the records that have no usage block
WithUsage == SelectSeq(files, LAMBDA e : e.usage)

\* The records the sessions list reads for the session of row r
ListOf(r) ==
    {i \in ListSurviving :
        /\ ProjectId(files[i].path) = r.project_id
        /\ RefSession(files[i]) = r.session_id}

\* C25 (missing usage block): in the sessions list a record with a timestamp
\* and no usage block counts in the event_count of its session and in its
\* first and last timestamp, and adds nothing to the tokens and the cost of
\* the session, which are those of the log without such records; a session
\* whose records all lack usage has a row with zero tokens and zero cost. The
\* weekly, hourly, summary and per-session usage views return what they
\* return for the log without such records.
C25_MissingUsage ==
    /\ q.view = "sessions_list" =>
         /\ \A r \in rows :
              LET ts == {TryCastTimestamp(files[i].timestamp) : i \in ListOf(r)} \ {NULL}
                  same == {x \in SessionsList(WithUsage, pricing, q.days, q.project) :
                              x.project_id = r.project_id /\ x.session_id = r.session_id}
              IN  /\ r.event_count = Cardinality(ListOf(r))
                  /\ ts # {} => /\ \A t \in ts : r.first_timestamp <= t /\ t <= r.last_timestamp
                                /\ r.first_timestamp \in ts
                                /\ r.last_timestamp \in ts
                  /\ \A x \in same :
                        /\ r.total_input_tokens = x.total_input_tokens
                        /\ r.total_output_tokens = x.total_output_tokens
                        /\ r.total_cost_usd = x.total_cost_usd
                  /\ (\A i \in ListOf(r) : ~files[i].usage) =>
                        /\ r.total_input_tokens = 0
                        /\ r.total_output_tokens = 0
                        /\ r.total_cost_usd = 0
         /\ \A i \in ListSurviving :
              (/\ ~files[i].usage
               /\ files[i].path = MainPath(ProjectId(files[i].path), RefSession(files[i])))
              => \E r \in rows : i \in ListOf(r)
    /\ q.view = "by_week" => rows = ByWeek(WithUsage, pricing, q.days, q.project)
    /\ q.view = "by_hour" => rows = ByHour(WithUsage, pricing, q.days, q.project)
    /\ q.view = "summary" => rows = Summary(WithUsage, pricing, q.days, q.project)
    /\ q.view = "sessions" => rows = Sessions(WithUsage, pricing, q.days, q.project)

\* C25 witness: the sessions list holds a row of two records, a user turn
\* without usage that gives the first timestamp and a turn with usage that
\* gives the tokens
C25_Witness ==
    /\ q.view = "sessions_list"
    /\ \E r \in rows :
         /\ r.event_count = 2
         /\ r.total_input_tokens = 1000000
         /\ \E i, k \in ListOf(r) :
              /\ ~files[i].usage
              /\ files[k].usage
              /\ r.first_timestamp = TryCastTimestamp(files[i].timestamp)
              /\ r.first_timestamp < r.last_timestamp

(***************************************************************************)
(* The main-agent / subagent breakdown                                     *)
(***************************************************************************)

\* Longest log explored for the breakdown
MaxSideEvents == 3

\* Records of session s1 of project p1: main-agent and sidechain turns in
\* the main file, a turn without isSidechain and a sidechain turn in a file
\* under s1/subagents/, turns with only one of input_tokens and
\* output_tokens, and a turn of a second session
SidePool ==
    { Record(MainPath(P1, S1), S1, NULLSTR, "false", "assistant", ModelSonnet, TRUE,
             1000, 100, NULL, NULL, NULL, NULL, At(8, 10, 0)),
      Record(MainPath(P1, S1), S1, <<"x">>, "true", "assistant", ModelSonnet, TRUE,
             2000, NULL, NULL, NULL, NULL, NULL, At(8, 10, 30)),
      Record(SubagentPath(P1, S1, AgentX), S1, <<"x">>, "absent", "assistant", ModelSonnet, TRUE,
             3000, 300, NULL, NULL, NULL, NULL, At(8, 11, 0)),
      Record(SubagentPath(P1, S1, AgentX), S1, <<"x">>, "true", "assistant", ModelSonnet, TRUE,
             NULL, 400, NULL, NULL, NULL, NULL, At(8, 11, 30)),
      Record(MainPath(P1, S1), S1, NULLSTR, "true", "assistant", ModelSonnet, TRUE,
             500, 50, NULL, NULL, NULL, NULL, At(8, 12, 0)),
      Record(MainPath(P1, S2), S2, NULLSTR, "absent", "assistant", ModelHaiku, TRUE,
             NULL, NULL, NULL, 7000, NULL, NULL, At(8, 13, 0)) }

NextSide ==
    \/ AppendRecord(SidePool, MaxSideEvents)
    \/ Receive
    \/ RunSessions
    \/ RunSummary

SpecSide == Init /\ [][NextSide]_vars

\* The surviving records whose isSidechain field is true, and the others
SideEvents(S) == {i \in S : files[i].isSidechain = "true"}
MainEvents(S) == {i \in S : files[i].isSidechain # "true"}

\* The breakdown of row r counts the records of S: those with isSidechain =
\* true as subagent, all others as main agent
BreakdownOf(r, S) ==
    /\ r.main_agent_events = Cardinality(MainEvents(S))
    /\ r.subagent_events = Cardinality(SideEvents(S))
    /\ r.main_agent_input_tokens = SumOver(MainEvents(S), LAMBDA e : Coalesce0(e.input_tokens))
    /\ r.main_agent_output_tokens = SumOver(MainEvents(S), LAMBDA e : Coalesce0(e.output_tokens))
    /\ r.subagent_input_tokens = SumOver(SideEvents(S), LAMBDA e : Coalesce0(e.input_tokens))
    /\ r.subagent_output_tokens = SumOver(SideEvents(S), LAMBDA e : Coalesce0(e.output_tokens))

\* The two parts of the breakdown add up to the totals of the row
BreakdownAddsUp(r, count) ==
    /\ r.main_agent_events + r.subagent_events = count
    /\ r.main_agent_input_tokens + r.subagent_input_tokens = r.total_input_tokens
    /\ r.main_agent_output_tokens + r.subagent_output_tokens = r.total_output_tokens

\* C26 (sidechain attribution): every usage record is counted in exactly one
\* of main_agent_events and subagent_events, and its tokens likewise, by its
\* isSidechain field alone: a record without the field is a main-agent
\* record also in a file under subagents/, a record with isSidechain = true
\* is a subagent record also in a main session file. In the per-session usage
\* view this holds record by record; in the summary, whose join is on the
\* model family, it holds record by record when the family is a key of the
\* pricing table, and for any pricing table the two parts add up to the
\* totals and a part without records is zero.
C26_SidechainAttribution ==
    /\ q.view = "sessions" =>
         \A r \in rows :
             LET mine == {i \in Surviving : SessionsEventKey(files[i]) = SessionsRowKey(r)}
             IN  BreakdownOf(r, mine) /\ BreakdownAddsUp(r, r.event_count)
    /\ q.view = "summary" =>
         \A r \in rows :
             /\ BreakdownAddsUp(r, r.total_events)
             /\ FamilyIsKey => BreakdownOf(r, Surviving)
             /\ SideEvents(Surviving) = {} =>
                    r.subagent_events = 0 /\ r.subagent_input_tokens = 0
                    /\ r.subagent_output_tokens = 0
             /\ MainEvents(Surviving) = {} =>
                    r.main_agent_events = 0 /\ r.main_agent_input_tokens = 0
                    /\ r.main_agent_output_tokens = 0

\* C26 witness: the per-session rows count a record without isSidechain of
\* a file under subagents/ as main agent and a record with isSidechain = true
\* of the main file as subagent
C26_Witness ==
    /\ q.view = "sessions"
    /\ \E i, k \in Surviving :
         /\ files[i].path = SubagentPath(P1, S1, AgentX)
         /\ files[i].isSidechain = "absent"
         /\ files[k].path = MainPath(P1, S1)
         /\ files[k].isSidechain = "true"
         /\ \E r1, r2 \in rows :
              /\ SessionsEventKey(files[i]) = SessionsRowKey(r1)
              /\ r1.main_agent_events = 1 /\ r1.subagent_events = 0
              /\ r1.main_agent_input_tokens = 3000
              /\ SessionsEventKey(files[k]) = SessionsRowKey(r2)
              /\ r2.main_agent_events = 0 /\ r2.subagent_events = 1
              /\ r2.subagent_input_tokens > 0

(***************************************************************************)
(* The cost of a session in the sessions list                              *)
(***************************************************************************)

\* The sum of the unrounded total costs of a set of per-session usage rows
RECURSIVE SumCost(_)
SumCost(R) ==
    IF R = {} THEN 0
    ELSE LET x == CHOOSE y \in R : TRUE
         IN  x.total_cost_raw + SumCost(R \ {x})

\* C27 (the sessions-list cost covers every usage event): the cost of a
\* session in the sessions list, before rounding, is the sum of the costs of
\* the rows of that session in the per-session usage view of the same
\* request, so that every record with a usage block contributes its cost,
\* cache reads and writes included, also when it has neither input_tokens
\* nor output_tokens.
C27_SessionsListCost ==
    q.view = "sessions_list" =>
        \A r \in rows :
            r.total_cost_raw =
                SumCost({x \in Sessions(files, pricing, q.days, q.project) :
                            x.project_id = r.project_id /\ x.session_id = r.session_id})

(***************************************************************************)
(* The share of the subagent tokens                                        *)
(***************************************************************************)

\* C28 (subagent_token_pct): in every per-session usage row and in the
\* summary row, subagent_token_pct is 100 * (subagent_input_tokens +
\* subagent_output_tokens) / (total_input_tokens + total_output_tokens)
\* rounded to one decimal when that total is not zero, also when some
\* records lack input_tokens or output_tokens; it is null only when the
\* total is zero, and it lies between 0 and 100.
C28_SubagentTokenPct ==
    q.view \in {"sessions", "summary"} =>
        \A r \in rows :
            LET sub == r.subagent_input_tokens + r.subagent_output_tokens
                tot == r.total_input_tokens + r.total_output_tokens
            IN  /\ tot # 0 => r.subagent_token_pct = PctRound1(sub, tot)
                /\ r.subagent_token_pct = NULL <=> tot = 0
                /\ r.subagent_token_pct # NULL =>
                       0 <= r.subagent_token_pct /\ r.subagent_token_pct <= 1000

(***************************************************************************)
(* The parameters a filter update leaves alone                             *)
(***************************************************************************)

StrHideAgents == <<"h","i","d","e","A","g","e","n","t","s">>
StrEventUuid == <<"e","v","e","n","t","_","u","u","i","d">>
StrTrue == <<"t","r","u","e">>

\* The query strings the Timeline page is opened with: page parameters
\* beside, before and after the filters
ParamSearches ==
    { <<"?","p","r","o","j","e","c","t","=","p","1","&","h","i","d","e","A","g","e","n","t","s","=","t","r","u","e","&","e","v","e","n","t","_","u","u","i","d","=","e","1">>,
      <<"?","e","v","e","n","t","_","u","u","i","d","=","e","1","&","d","a","y","s","=","9","0","&","h","i","d","e","A","g","e","n","t","s","=","f","a","l","s","e">>,
      <<"?","d","a","y","s","=","7","&","d","a","y","s","=","1","4","&","h","i","d","e","A","g","e","n","t","s","=","t","r","u","e","&","p","r","o","j","e","c","t","=">> }

\* The Timeline page is opened at a URL
LoadPageUrl ==
    /\ q = NoQuery
    /\ \E search \in ParamSearches :
        /\ location' = [pathname |-> "/timeline", search |-> search]
        /\ lastChange' = [op |-> "load", updates |-> <<>>, applied |-> Filters(search)]
    /\ UNCHANGED <<files, pricing, q, rows, api, drill>>

\* onChange of the "hide agent sessions" checkbox:
\* updateParams({ hideAgents: checked ? 'true' : null })
ToggleHideAgents ==
    /\ q = NoQuery
    /\ \E checked \in BOOLEAN :
        LET updates == <<<<StrHideAgents, IF checked THEN StrTrue ELSE NULLSTR>>>>
        IN  /\ location' = [location EXCEPT !.search = UpdateParams(location.search, updates)]
            /\ lastChange' = [lastChange EXCEPT !.op = "updateParams", !.updates = updates]
    /\ UNCHANGED <<files, pricing, q, rows, api, drill>>

NextParams ==
    \/ LoadPageUrl
    \/ SetDays
    \/ SelectProject
    \/ ClearFilters
    \/ ToggleHideAgents

SpecParams == Init /\ [][NextParams]_vars

\* The names of the parameters of a search, and all values of one name
ParamNames(search) ==
    {URLSearchParams(search)[i][1] : i \in 1..Len(URLSearchParams(search))}
ParamsGetAll(search, name) ==
    LET hits == SelectSeq(URLSearchParams(search), LAMBDA kv : kv[1] = name)
    IN  [i \in 1..Len(hits) |-> hits[i][2]]

\* C29 (setFilters changes only what it is given): a setFilters call with
\* days alone leaves project and every other parameter of the URL
\* (hideAgents, event_uuid) with the values it had, a call with project alone
\* leaves days and the others, and the updateParams of the Timeline page
\* leaves days and project; none of them changes the path.
C29_SetFiltersFrame ==
    [][/\ lastChange'.op = "setFilters" /\ location' # location =>
            /\ location'.pathname = location.pathname
            /\ \A name \in ParamNames(location.search) \cup ParamNames(location'.search) :
                  \/ name = StrDays /\ "days" \in DOMAIN lastChange'.updates
                  \/ name = StrProject /\ "project" \in DOMAIN lastChange'.updates
                  \/ ParamsGetAll(location'.search, name) = ParamsGetAll(location.search, name)
       /\ lastChange'.op = "updateParams" /\ location' # location =>
            /\ location'.pathname = location.pathname
            /\ \A name \in {StrDays, StrProject} :
                  ParamsGetAll(location'.search, name) = ParamsGetAll(location.search, name)
            /\ Filters(location'.search) = Filters(location.search)]_vars

\* C29 witness: setFilters({ days: 7 }) has acted on a URL that holds
\* project, hideAgents and event_uuid, and they are still there
C29_Witness ==
    /\ lastChange.op = "setFilters"
    /\ DOMAIN lastChange.updates = {"days"}
    /\ lastChange.updates.days = 7
    /\ ParamsGetAll(location.search, StrDays) = <<<<"7">>>>
    /\ ParamsGetAll(location.search, StrProject) = <<P1>>
    /\ ParamsGetAll(location.search, StrHideAgents) = <<StrTrue>>
    /\ ParamsGetAll(location.search, StrEventUuid) = <<<<"e","1">>>>

(***************************************************************************)
(* DrillDown: the view level and the selection                             *)
(***************************************************************************)

\* The project and session ids the lists hold
DrillProjects == {"p1", "p2"}
DrillSessions == {"s1", "s2"}

\* A fetch starts: setLoading(true), setError(null), the request goes out
StartFetch(d, kind) ==
    [d EXCEPT !.loading = TRUE, !.error = NullState, !.inFlight = Append(@, kind)]

\* handleProjectClick(projectId), from a row of the projects table (the tables
\* are rendered only while nothing is loading)
HandleProjectClick ==
    /\ drill.viewLevel = "projects" /\ ~drill.loading
    /\ \E projectId \in drill.projects :
        drill' = StartFetch([drill EXCEPT !.selectedProject = projectId,
                                          !.viewLevel = "sessions"], "sessions")
    /\ UNCHANGED <<files, pricing, q, rows, location, lastChange, api>>

\* handleSessionClick(sessionId), from a row of the sessions table
HandleSessionClick ==
    /\ drill.viewLevel = "sessions" /\ ~drill.loading
    /\ \E sessionId \in drill.sessions :
        drill' = IF drill.selectedProject = NullState \/ drill.selectedProject = ""
                 THEN drill
                 ELSE StartFetch([drill EXCEPT !.selectedSession = sessionId,
                                               !.viewLevel = "events"], "events")
    /\ UNCHANGED <<files, pricing, q, rows, location, lastChange, api>>

\* handleViewDailyDetails(projectId), from a row of the projects table
HandleViewDailyDetails ==
    /\ drill.viewLevel = "projects" /\ ~drill.loading
    /\ \E projectId \in drill.projects :
        drill' = StartFetch([drill EXCEPT !.selectedProject = projectId,
                                          !.viewLevel = "daily"], "daily")
    /\ UNCHANGED <<files, pricing, q, rows, location, lastChange, api>>

\* handleBack with the session kept when leaving the events level
HandleBackKeepingSession ==
    /\ drill' =
         IF drill.viewLevel = "events"
         THEN [drill EXCEPT !.viewLevel = "projects", !.selectedProject = NullState,
                            !.sessions = {}, !.events = {}, !.dailyDetails = {}]
         ELSE IF drill.viewLevel \in {"sessions", "daily"}
         THEN [drill EXCEPT !.viewLevel = "projects", !.selectedProject = NullState,
                            !.sessions = {}, !.events = {}, !.dailyDetails = {}]
         ELSE drill
    /\ UNCHANGED <<files, pricing, q, rows, location, lastChange, api>>

\* handleBack: the Back button is shown outside the projects level, also
\* while a list is loading
HandleBack ==
    /\ drill' =
         IF drill.viewLevel = "events"
         THEN [drill EXCEPT !.viewLevel = "sessions", !.selectedSession = NullState]
         ELSE IF drill.viewLevel \in {"sessions", "daily"}
         THEN [drill EXCEPT !.viewLevel = "projects", !.selectedProject = NullState,
                            !.sessions = {}, !.events = {}, !.dailyDetails = {}]
         ELSE drill
    /\ UNCHANGED <<files, pricing, q, rows, location, lastChange, api>>

\* A request of the page settles, in any order: the list it asked for is
\* stored, or the error is; then setLoading(false)
DrillSettles ==
    /\ \E k \in 1..Len(drill.inFlight), ok \in BOOLEAN :
        LET kind == drill.inFlight[k]
            rest == [i \in 1..(Len(drill.inFlight) - 1) |->
                        IF i < k THEN drill.inFlight[i] ELSE drill.inFlight[i + 1]]
            done == [drill EXCEPT !.inFlight = rest, !.loading = FALSE]
        IN  drill' =
              IF ~ok THEN [done EXCEPT !.error = "Failed to fetch " \o kind]
              ELSE IF kind = "projects" THEN [done EXCEPT !.projects = DrillProjects]
              ELSE IF kind = "sessions" THEN [done EXCEPT !.sessions = DrillSessions]
              ELSE IF kind = "events" THEN [done EXCEPT !.events = {"e1"}]
              ELSE [done EXCEPT !.dailyDetails = {"d1"}]
    /\ UNCHANGED <<files, pricing, q, rows, location, lastChange, api>>

NextDrill ==
    \/ HandleProjectClick
    \/ HandleSessionClick
    \/ HandleViewDailyDetails
    \/ HandleBack
    \/ DrillSettles

SpecDrill == Init /\ [][NextDrill]_vars

\* The selection that goes with each view level
DrillConsistent ==
    /\ drill.viewLevel \in {"projects", "sessions", "daily", "events"}
    /\ drill.viewLevel = "projects" =>
           drill.selectedProject = NullState /\ drill.selectedSession = NullState
    /\ drill.viewLevel \in {"sessions", "daily"} =>
           drill.selectedProject \in DrillProjects /\ drill.selectedSession = NullState
    /\ drill.viewLevel = "events" =>
           drill.selectedProject \in DrillProjects /\ drill.selectedSession \in DrillSessions

\* Where Back leads
BackMoves ==
    /\ drill.viewLevel = "events" => drill'.viewLevel = "sessions"
    /\ drill.viewLevel \in {"sessions", "daily"} => drill'.viewLevel = "projects"
    /\ drill.viewLevel = "projects" => drill' = drill

\* C30 (DrillDown view state): after any sequence of project clicks, session
\* clicks, daily-detail clicks and Back presses, the projects level has no
\* project and no session selected, the sessions and daily levels have a
\* project and no session, the events level has both; Back leads from
\* events to sessions, from sessions and daily to projects, and does
\* nothing in projects.
C30_DrillDownState == []DrillConsistent /\ [][HandleBack => BackMoves]_vars

\* C30 witness: Back has led from the events level to the sessions level
\* of project p2, whose events are still stored
C30_Witness ==
    /\ drill.viewLevel = "sessions"
    /\ drill.selectedProject = "p2"
    /\ drill.selectedSession = NullState
    /\ drill.events # {}

(***************************************************************************)
(* useApi: the data and the loading flag of the current endpoint           *)
(***************************************************************************)

\* Requests of one hook that may be in flight together
MaxApiRequests == 2

\* The endpoints a component passes to the hook; null skips the fetch
ApiEndpoints == {NullState, EndpointA, EndpointB}

\* The body of the response to a request
ResponseOf(endpoint) == "response to " \o endpoint

\* The component renders with another endpoint and the effect runs: for null
\* it clears data, loading and error; otherwise it sets loading and starts
\* a request. No earlier request is cancelled.
ChangeEndpoint ==
    /\ \E e \in ApiEndpoints \ {api.endpoint} :
        LET older == [k \in 1..Len(api.inFlight) |-> [api.inFlight[k] EXCEPT !.latest = FALSE]]
        IN  IF e = NullState
            THEN api' = [api EXCEPT !.endpoint = e, !.data = NullState, !.loading = FALSE,
                                    !.error = NullState, !.inFlight = older]
            ELSE /\ Len(api.inFlight) < MaxApiRequests
                 /\ api' = [api EXCEPT !.endpoint = e, !.loading = TRUE,
                                       !.inFlight = Append(older, [endpoint |-> e, latest |-> TRUE])]
    /\ UNCHANGED <<files, pricing, q, rows, location, lastChange, drill>>

\* A request settles, in any order: a response that is ok stores its body
\* and clears the error, a response that is not ok or a rejected fetch
\* stores the message; then setLoading(false)
ApiSettles ==
    /\ \E k \in 1..Len(api.inFlight), outcome \in {"ok", "not ok", "rejected"} :
        LET req == api.inFlight[k]
            rest == [i \in 1..(Len(api.inFlight) - 1) |->
                        IF i < k THEN api.inFlight[i] ELSE api.inFlight[i + 1]]
            done == [api EXCEPT !.inFlight = rest, !.loading = FALSE]
        IN  api' =
              IF outcome = "ok"
              THEN [done EXCEPT !.data = ResponseOf(req.endpoint), !.error = NullState]
              ELSE IF outcome = "not ok"
              THEN [done EXCEPT !.error = "HTTP error! status: 500"]
              ELSE [done EXCEPT !.error = "Failed to fetch"]
    /\ UNCHANGED <<files, pricing, q, rows, location, lastChange, drill>>

NextApi ==
    \/ ChangeEndpoint
    \/ ApiSettles

SpecApi == Init /\ [][NextApi]_vars

\* C22 (useApi shows the data of the latest endpoint): once every request
\* has settled and the last of them left no error, data is the response to
\* the current endpoint, or null when the endpoint is null, whatever the
\* order in which the responses arrived.
C22_LatestEndpointData ==
    (api.inFlight = <<>> /\ api.error = NullState) =>
        api.data = IF api.endpoint = NullState THEN NullState ELSE ResponseOf(api.endpoint)

\* C23 (useApi loading flag): while the request started for the current
\* endpoint is in flight loading is true, so that loading is false only
\* after that request has settled.
C23_LoadingFlag ==
    (\E k \in 1..Len(api.inFlight) : api.inFlight[k].latest) => api.loading

(***************************************************************************)
(* fetchJson: every outcome of a request as a value                        *)
(***************************************************************************)

\* undefined: a field the error body does not have
Undefined == "undefined"

\* a || b of JavaScript on strings: "" and undefined are falsy
OrElse(a, b) == IF a = Undefined \/ a = "" THEN b ELSE a

\* createApiError(response, message)
CreateApiError(response, message) ==
    [status |-> response.status,
     statusText |-> response.statusText,
     message |-> OrElse(message, "HTTP error " \o ToString(response.status)
                                 \o ": " \o response.statusText),
     url |-> response.url]

\* createNetworkError(url, error): the message of an Error, a fixed text
\* for any other thrown value
CreateNetworkError(url, error) ==
    [status |-> 0,
     statusText |-> "Network Error",
     message |-> IF error.isError THEN error.message ELSE "Network request failed",
     url |-> url]

\* response.json(): the parsed body, or the SyntaxError it throws
JsonOf(body) ==
    IF body.kind = "not json"
    THEN [threw |-> TRUE, error |-> [isError |-> TRUE, message |-> "Unexpected token"]]
    ELSE [threw |-> FALSE, value |-> body]

\* errorBody.detail || errorBody.message || errorBody.error; reading a field
\* of null throws, which the inner catch swallows
ErrorMessageOf(parsed) ==
    IF parsed.threw \/ parsed.value.kind = "null" THEN Undefined
    ELSE OrElse(OrElse(parsed.value.detail, parsed.value.message), parsed.value.error)

\* fetchJson(url): the result for each way the fetch can end
FetchJson(url, outcome) ==
    IF outcome.rejected
    THEN [ok |-> FALSE, error |-> CreateNetworkError(url, outcome.error)]
    ELSE IF ~outcome.response.ok
    THEN [ok |-> FALSE,
          error |-> CreateApiError(outcome.response,
                                   ErrorMessageOf(JsonOf(outcome.response.body)))]
    ELSE IF JsonOf(outcome.response.body).threw
    THEN [ok |-> FALSE,
          error |-> CreateNetworkError(url, JsonOf(outcome.response.body).error)]
    ELSE [ok |-> TRUE, data |-> JsonOf(outcome.response.body).value]

\* The request of the tests
TestUrl == "http://example.com/api/test"

\* Bodies: text that is not JSON, the JSON null, and objects with any of the
\* fields detail, message and error absent, empty or filled
FieldValues(text) == {Undefined, "", text}
Bodies ==
    {[kind |-> "not json"], [kind |-> "null"]}
    \cup {[kind |-> "object", detail |-> d, message |-> m, error |-> e] :
             d \in FieldValues("Resource not found"),
             m \in FieldValues("a message"),
             e \in FieldValues("an error")}

\* Responses: ok is true exactly for the statuses 200..299
Responses ==
    {[ok |-> st[1] \in 200..299, status |-> st[1], statusText |-> st[2],
      url |-> TestUrl, body |-> b] :
        st \in {<<200, "OK">>, <<404, "Not Found">>, <<500, "Internal Server Error">>},
        b \in Bodies}

\* The ways a fetch ends: a response, or a rejection with an Error or with
\* another thrown value
FetchOutcomes ==
    {[rejected |-> FALSE, response |-> r] : r \in Responses}
    \cup {[rejected |-> TRUE, error |-> [isError |-> TRUE, message |-> "Failed to fetch"]],
          [rejected |-> TRUE, error |-> [isError |-> FALSE, message |-> Undefined]]}

\* await fetchJson(url)
CallFetchJson ==
    /\ q = NoQuery
    /\ \E outcome \in FetchOutcomes :
        /\ q' = [view |-> "fetchJson", url |-> TestUrl, outcome |-> outcome]
        /\ rows' = {FetchJson(TestUrl, outcome)}
    /\ UNCHANGED <<files, pricing, location, lastChange, api, drill>>

NextFetch ==
    \/ CallFetchJson
    \/ Receive

SpecFetch == Init /\ [][NextFetch]_vars

\* C21 (fetchJson never throws): every call returns one result, which holds
\* exactly one of data and error; a response with ok = true gives ok: true
\* and the parsed body as data; a response with ok = false gives ok: false
\* with the status of the response and the first non-empty of the detail,
\* message and error fields of its body as message, or 'HTTP error <status>:
\* <statusText>' when there is none or the body is not JSON; a rejected
\* fetch gives ok: false with status 0 and statusText 'Network Error'.
C21_FetchJsonOutcomes ==
    q.view = "fetchJson" =>
        /\ Cardinality(rows) = 1
        /\ \A r \in rows :
             /\ ("data" \in DOMAIN r) # ("error" \in DOMAIN r)
             /\ r.ok <=> "data" \in DOMAIN r
             /\ q.outcome.rejected =>
                    /\ ~r.ok
                    /\ r.error.status = 0
                    /\ r.error.statusText = "Network Error"
             /\ (~q.outcome.rejected /\ q.outcome.response.ok) => r.ok
             /\ (~q.outcome.rejected /\ ~q.outcome.response.ok) =>
                    LET resp == q.outcome.response
                        b == resp.body
                        texts == IF b.kind = "object"
                                 THEN SelectSeq(<<b.detail, b.message, b.error>>,
                                                LAMBDA t : t \notin {Undefined, ""})
                                 ELSE <<>>
                    IN  /\ ~r.ok
                        /\ r.error.status = resp.status
                        /\ r.error.message =
                              IF texts # <<>> THEN texts[1]
                              ELSE "HTTP error " \o ToString(resp.status)
                                   \o ": " \o resp.statusText

====
